---- MODULE Spec2Model ----
(***************************************************************************)
(* Model of homebridge-ws-olarm-plugin: the Olarm area store               *)
(* (src/src/olarm.ts), the command dispatch over the MQTT client pool      *)
(* (src/src/olarm.ts, src/src/platform.ts) and the session handling of     *)
(* Auth (src/src/auth.ts).                                                 *)
(*                                                                         *)
(* JavaScript values are modelled as follows.  A JSON value is a record    *)
(* with a tag t: "undefined", "null", "number", "string" (chars: the       *)
(* sequence of its characters), "array" (items) or "object".  Enumeration  *)
(* members and area names are TLA+ strings.                                *)
(***************************************************************************)
EXTENDS Integers, Sequences, FiniteSets, TLC

VARIABLES
    areas,      \* Olarm.areas: the sequence of OlarmArea records
    last,       \* the last processMqttMessage call and what it did
    convArg,    \* argument of a convertAreaState evaluation
    convResult, \* its result, or Pending
    devicesMap, \* Olarm.devicesMap: device id -> Device, for the known ids
    clients,    \* the MQTT clients created so far, by creation number
    mqttClients,\* platform.mqttClients: device id -> client number, or NoClient
    dispatch,   \* the setArea call in progress or last made
    auth,       \* the Auth object, its tokens file, its callers and the clock
    snapshot,   \* the list a reader holds from its last getAreas call
    stopped,    \* the 'shutdown' event of the API has been emitted
    platform,   \* the accessories of the platform, their handlers, and the
                \* accessories registered with Homebridge
    mapping,    \* an evaluation of the HomeKit conversions of the accessory
    handler     \* the handler of one accessory and its last set request

storeVars == <<areas, last>>
convVars == <<convArg, convResult>>
poolVars == <<devicesMap, clients, mqttClients, dispatch>>
authVars == <<auth>>
readerVars == <<snapshot>>
lifeVars == <<stopped>>
accessoryVars == <<platform>>
mappingVars == <<mapping>>
handlerVars == <<handler>>
restVars == <<readerVars, lifeVars, accessoryVars, mappingVars, handlerVars>>
vars == <<areas, last, convArg, convResult, devicesMap, clients, mqttClients, dispatch, auth,
          snapshot, stopped, platform, mapping, handler>>

(***************************************************************************)
(* Bounds                                                                  *)
(***************************************************************************)
MaxAreas == 2
MaxClients == 2
MaxCallers == 2
MaxFetches == 6
MaxTicks == 1

(***************************************************************************)
(* JavaScript / JSON values                                                *)
(***************************************************************************)
Undefined == "undefined"
Null == "null"

JUndefined == [t |-> "undefined"]
JNull == [t |-> "null"]
JNumber(n) == [t |-> "number", n |-> n]
JString(chars) == [t |-> "string", chars |-> chars]
JArray(items) == [t |-> "array", items |-> items]

\* JavaScript truthiness, as used by the && chains of olarm.ts.
Truthy(v) ==
    CASE v.t = "undefined" -> FALSE
      [] v.t = "null" -> FALSE
      [] v.t = "number" -> v.n # 0
      [] v.t = "string" -> Len(v.chars) > 0
      [] OTHER -> TRUE

\* v.length; -1 stands for undefined (a value without a length property).
NoLength == 0 - 1
Length(v) ==
    CASE v.t = "array" -> Len(v.items)
      [] v.t = "string" -> Len(v.chars)
      [] OTHER -> NoLength

\* v[i-1] of an array, or of a string (a one-character string).
Index(v, i) ==
    IF v.t = "array" THEN v.items[i] ELSE JString(<<v.chars[i]>>)

UpperAlphabet ==
    <<"A", "B", "C", "D", "E", "F", "G", "H", "I", "J", "K", "L", "M",
      "N", "O", "P", "Q", "R", "S", "T", "U", "V", "W", "X", "Y", "Z">>
LowerAlphabet ==
    <<"a", "b", "c", "d", "e", "f", "g", "h", "i", "j", "k", "l", "m",
      "n", "o", "p", "q", "r", "s", "t", "u", "v", "w", "x", "y", "z">>

LowerOfUpper == [c \in {UpperAlphabet[i] : i \in DOMAIN UpperAlphabet} |->
                    LowerAlphabet[CHOOSE i \in DOMAIN UpperAlphabet : UpperAlphabet[i] = c]]
UpperOfLower == [c \in {LowerAlphabet[i] : i \in DOMAIN LowerAlphabet} |->
                    UpperAlphabet[CHOOSE i \in DOMAIN LowerAlphabet : LowerAlphabet[i] = c]]

LowerChar(c) == IF c \in DOMAIN LowerOfUpper THEN LowerOfUpper[c] ELSE c
UpperChar(c) == IF c \in DOMAIN UpperOfLower THEN UpperOfLower[c] ELSE c

\* String.prototype.toLowerCase on a sequence of characters.
toLowerCase(chars) == [i \in 1..Len(chars) |-> LowerChar(chars[i])]

(***************************************************************************)
(* types: OlarmAreaState and OlarmAreaAction                               *)
(***************************************************************************)
Armed == "arm"
Disarmed == "disarm"
ArmedStay == "stay"
NotReady == "notready"
Triggered == "activated"
\* The members the enumeration declares.
OlarmAreaState == {Armed, Disarmed, ArmedStay, NotReady, Triggered}
\* olarm.ts and platformAccessory.ts read OlarmAreaState.ArmedSleep, a member
\* the enumeration does not declare: the property read gives undefined.
ArmedSleep == Undefined

AreaArm == "area-arm"
AreaStay == "area-stay"
AreaDisarm == "area-disarm"
\* The members the enumeration declares.
OlarmAreaAction == {AreaArm, AreaStay, AreaDisarm}
\* platformAccessory.ts reads OlarmAreaAction.Sleep, a member the enumeration
\* does not declare: the property read gives undefined.
AreaSleep == Undefined

(***************************************************************************)
(* Olarm.convertAreaState                                                  *)
(***************************************************************************)
W_arm == <<"a", "r", "m">>
W_disarm == <<"d", "i", "s", "a", "r", "m">>
W_stay == <<"s", "t", "a", "y">>
W_sleep == <<"s", "l", "e", "e", "p">>
W_notready == <<"n", "o", "t", "r", "e", "a", "d", "y">>
W_not_ready == <<"n", "o", "t", " ", "r", "e", "a", "d", "y">>
W_activated == <<"a", "c", "t", "i", "v", "a", "t", "e", "d">>
W_alarm == <<"a", "l", "a", "r", "m">>

\* The switch of convertAreaState over the lower-cased string.
AreaStateOfWord(state) ==
    CASE state = W_arm -> Armed
      [] state = W_disarm -> Disarmed
      [] state = W_stay -> ArmedStay
      [] state = W_sleep -> ArmedSleep
      [] state = W_notready -> NotReady
      [] state = W_not_ready -> NotReady
      [] state = W_activated -> Triggered
      [] state = W_alarm -> Triggered
      [] OTHER -> NotReady

convertAreaState(chars) == AreaStateOfWord(toLowerCase(chars))

\* convertAreaState ends in the default branch, which logs the warning.
convertAreaStateWarns(chars) ==
    toLowerCase(chars) \notin
        {W_arm, W_disarm, W_stay, W_sleep, W_notready, W_not_ready,
         W_activated, W_alarm}

(***************************************************************************)
(* Inbound MQTT messages                                                   *)
(***************************************************************************)
DeviceIds == {"D1", "D2"}

\* Raw area-state strings a panel sends, in several letter cases.
RawStates == {W_disarm, <<"A", "R", "M">>}

ZoneNames(k) == [i \in 1..k |-> "Zone " \o ToString(i)]
MainNames(k) == [i \in 1..k |-> IF i = k THEN "Main" ELSE "Zone " \o ToString(i)]

\* The areasDetail a frame with k area states may carry: none, or one of two
\* lists of k names that differ in the last name.
AreasDetails(k) == {JUndefined, JArray(ZoneNames(k)), JArray(MainNames(k))}

AlarmData(areasValue, areasDetail) ==
    [t |-> "object", areas |-> areasValue, areasDetail |-> areasDetail]
Payload(type, data) == [t |-> "object", type |-> type, data |-> data]
JsonMessage(payload) == [kind |-> "json", payload |-> payload]
TextMessage == [kind |-> "text"]

Frame(states, areasDetail) ==
    JsonMessage(Payload("alarmPayload",
        AlarmData(JArray([i \in 1..Len(states) |-> JString(states[i])]), areasDetail)))

\* Messages that are alarm-state frames: type "alarmPayload", data.areas a list
\* of strings.  Listed apart: frames whose areasDetail has another length, and
\* frames with other state strings.
ValidFrames ==
    UNION {{Frame(l, d) : l \in [1..k -> RawStates], d \in AreasDetails(k)} :
              k \in 0..MaxAreas}
    \cup {Frame(<<>>, JArray(ZoneNames(1))),
          Frame(<<W_disarm>>, JArray(MainNames(2))),
          Frame(<<W_sleep>>, JArray(<<>>)),
          Frame(<<W_sleep>>, JArray(ZoneNames(1))),
          Frame(<<<<"S", "t", "a", "y">>, W_sleep>>, JUndefined),
          Frame(<<<<"a", "w", "a", "y">>>>, JArray(ZoneNames(1)))}

\* Other traffic: text that is not JSON, JSON null, another type, no data, no
\* areas, and areas or its entries of another shape than a list of strings.
OtherMessages ==
    {TextMessage,
     JsonMessage(JNull),
     JsonMessage(Payload("status", AlarmData(JArray(<<JString(W_arm)>>), JUndefined))),
     JsonMessage(Payload("alarmPayload", JUndefined)),
     JsonMessage(Payload("alarmPayload", AlarmData(JUndefined, JUndefined))),
     JsonMessage(Payload("alarmPayload", AlarmData(JString(<<>>), JUndefined))),
     JsonMessage(Payload("alarmPayload", AlarmData(JString(<<"o", "n">>), JUndefined))),
     JsonMessage(Payload("alarmPayload", AlarmData(JString(<<"o", "n">>), JArray(ZoneNames(2))))),
     JsonMessage(Payload("alarmPayload", AlarmData(JNumber(1), JUndefined))),
     JsonMessage(Payload("alarmPayload", AlarmData(JArray(<<JNumber(1)>>), JUndefined))),
     JsonMessage(Payload("alarmPayload", AlarmData(JArray(<<JString(W_arm), JNull>>), JUndefined)))}

Messages == ValidFrames \cup OtherMessages

\* The traffic of the second device: a sample of the same kinds of message.
SampleMessages ==
    {Frame(<<W_disarm>>, JArray(ZoneNames(1))),
     Frame(<<<<"A", "R", "M">>>>, JArray(ZoneNames(1))),
     Frame(<<W_disarm, W_sleep>>, JUndefined),
     Frame(<<>>, JUndefined),
     TextMessage}

MessagesOf(deviceId) == IF deviceId = "D1" THEN Messages ELSE SampleMessages

(***************************************************************************)
(* Olarm.parseAreasFromPayload                                             *)
(***************************************************************************)
OlarmArea(areaName, deviceId, areaNumber, areaState) ==
    [areaName |-> areaName, deviceId |-> deviceId,
     areaNumber |-> areaNumber, areaState |-> areaState]

\* A mutation: find looks for the loop index i instead of i + 1.
FindAreaZeroBased(as, deviceId, areaNumber) ==
    LET hits == {j \in DOMAIN as :
                    as[j].deviceId = deviceId /\ as[j].areaNumber = areaNumber - 1}
    IN  IF hits = {} THEN [found |-> FALSE]
        ELSE [found |-> TRUE,
              area |-> as[CHOOSE j \in hits : \A h \in hits : j <= h]]

\* A mutation: find matches on the area number alone.
FindAreaAnyDevice(as, deviceId, areaNumber) ==
    LET hits == {j \in DOMAIN as : as[j].areaNumber = areaNumber}
    IN  IF hits = {} THEN [found |-> FALSE]
        ELSE [found |-> TRUE,
              area |-> as[CHOOSE j \in hits : \A h \in hits : j <= h]]

\* Array.prototype.find over this.areas: the first area of the device with the
\* number, or none.
FindArea(as, deviceId, areaNumber) ==
    LET hits == {j \in DOMAIN as :
                    as[j].deviceId = deviceId /\ as[j].areaNumber = areaNumber}
    IN  IF hits = {} THEN [found |-> FALSE]
        ELSE [found |-> TRUE,
              area |-> as[CHOOSE j \in hits : \A h \in hits : j <= h]]

AreasOfDevice(as, deviceId) == SelectSeq(as, LAMBDA a : a.deviceId = deviceId)
\* A mutation: the areas of the other devices are dropped.
AreasOfOthersNone(as, deviceId) == <<>>

\* this.areas.filter(a => a.deviceId !== deviceId) (line 111)
AreasOfOthers(as, deviceId) == SelectSeq(as, LAMBDA a : a.deviceId # deviceId)

\* The names used for the areas, or a TypeError (areasStates.map on a value
\* that is no array).
ResolveAreasDetails(data) ==
    LET areasStates == data.areas
        areasDetail == data.areasDetail
    IN  IF Truthy(areasDetail) /\ Length(areasDetail) = Length(areasStates)
        THEN [threw |-> FALSE, names |-> areasDetail.items]
        ELSE IF areasStates.t = "array"
             THEN [threw |-> FALSE,
                   names |-> [i \in 1..Len(areasStates.items) |-> "Area " \o ToString(i)]]
             ELSE [threw |-> TRUE, names |-> <<>>]

\* A mutation: the test compares the states only.
AreaDiffersStateOnly(existingArea, newArea) ==
    \/ ~existingArea.found
    \/ existingArea.area.areaState # newArea.areaState

\* The difference test of one area against the area found for it.
AreaDiffers(existingArea, newArea) ==
    \/ ~existingArea.found
    \/ existingArea.area.areaState # newArea.areaState
    \/ existingArea.area.areaName # newArea.areaName

\* The for loop, from index i (1-based) on; acc carries newAreas and
\* stateChanged.  A state entry that is no string makes toLowerCase throw.
RECURSIVE ParseLoop(_, _, _, _, _, _)
ParseLoop(as, deviceId, areasStates, areasDetails, i, acc) ==
    IF i > Length(areasStates) THEN acc
    ELSE LET areaStateStr == Index(areasStates, i)
         IN  IF areaStateStr.t # "string"
             THEN [acc EXCEPT !.threw = TRUE]
             ELSE LET newArea == OlarmArea(areasDetails[i], deviceId, i,
                                           convertAreaState(areaStateStr.chars))
                      existingArea == FindArea(as, deviceId, i)
                  IN  ParseLoop(as, deviceId, areasStates, areasDetails, i + 1,
                                [acc EXCEPT
                                   !.newAreas = Append(@, newArea),
                                   !.stateChanged = @ \/ AreaDiffers(existingArea, newArea)])

\* The result of parseAreasFromPayload on this.areas = as: whether it threw,
\* the new value of this.areas and the value returned.
parseAreasFromPayload(as, deviceId, payload) ==
    LET details == ResolveAreasDetails(payload.data)
        loop == ParseLoop(as, deviceId, payload.data.areas, details.names, 1,
                          [threw |-> FALSE, newAreas |-> <<>>, stateChanged |-> FALSE])
        countChanged == Len(AreasOfDevice(as, deviceId)) # Len(loop.newAreas)
    IN  IF details.threw \/ loop.threw
        THEN [threw |-> TRUE, areas |-> as, stateChanged |-> FALSE]
        ELSE [threw |-> FALSE,
              areas |-> AreasOfOthers(as, deviceId) \o loop.newAreas,
              stateChanged |-> loop.stateChanged \/ countChanged]

(***************************************************************************)
(* Olarm.getAreas: JSON.parse(JSON.stringify(this.areas))                  *)
(***************************************************************************)
\* JSON.stringify leaves out a property whose value is undefined.
JsonCopyArea(a) ==
    IF a.areaState = Undefined
    THEN [areaName |-> a.areaName, deviceId |-> a.deviceId, areaNumber |-> a.areaNumber]
    ELSE a

getAreas(as) == [i \in 1..Len(as) |-> JsonCopyArea(as[i])]

(***************************************************************************)
(* OlarmAreaPlatformAccessory: the states a handler keeps                  *)
(***************************************************************************)
\* area.areaState, undefined for a record without the property (the JSON
\* copy of an area whose state is undefined).
AreaStateOf(area) == IF "areaState" \in DOMAIN area THEN area.areaState ELSE Undefined

\* The constructor (lines 22-26): context.area?.areaState || Disarmed.
NewHandler(area) ==
    LET initial == IF AreaStateOf(area) = Undefined THEN Disarmed ELSE AreaStateOf(area)
    IN  [currentState |-> initial, targetState |-> initial]

\* A mutation: the target state follows every new state.
updateStateFromExternalAlways(h, newState) ==
    [h EXCEPT !.currentState = newState, !.targetState = newState]

\* updateStateFromExternal (lines 111-128).
updateStateFromExternal(h, newState) ==
    IF newState # NotReady
    THEN [h EXCEPT !.currentState = newState, !.targetState = newState]
    ELSE [h EXCEPT !.currentState = newState]

(***************************************************************************)
(* The accessories of the platform: configureAccessory, discoverDevices    *)
(* and updateAccessoryStates (platform.ts).                                *)
(*                                                                         *)
(* platform holds accessories (the array this.accessories; an accessory is *)
(* its UUID and its context.area), accessoryHandlers (the UUIDs that have  *)
(* a handler), initialDeviceDiscoveryDone, initialized (initializePlugin   *)
(* has run its discovery, lines 90-91) and registered (the UUIDs of the    *)
(* accessories Homebridge holds for the plugin, in the order of their      *)
(* registration).  discovered tells that the last call of a handler ran    *)
(* discoverDevices, unregistered which UUIDs its last run unregistered.    *)
(* handlerOf is the map this.accessoryHandlers: the currentState and the   *)
(* targetState of the handler of each UUID that has one.                   *)
(***************************************************************************)
\* area.deviceId + area.areaNumber.toString(), the name the UUID is generated
\* from (lines 314 and 402).
UUIDOf(area) == area.deviceId \o ToString(area.areaNumber)

Accessory(area) == [UUID |-> UUIDOf(area), area |-> area]

\* this.accessoryHandlers: new Map(), set(uuid, handler), delete(uuid).
NoHandlers == [uuid \in {} |-> NewHandler(<<>>)]
SetHandler(handlers, uuid, h) ==
    [u \in DOMAIN handlers \cup {uuid} |-> IF u = uuid THEN h ELSE handlers[u]]
DeleteHandlers(handlers, uuids) ==
    [u \in DOMAIN handlers \ uuids |-> handlers[u]]

NewPlatform ==
    [accessories |-> <<>>, accessoryHandlers |-> {}, handlerOf |-> NoHandlers,
     initialDeviceDiscoveryDone |-> FALSE, initialized |-> FALSE,
     registered |-> <<>>, discovered |-> FALSE, unregistered |-> {}]

\* this.accessories.find(accessory => accessory.UUID === uuid): the index of
\* the first such accessory, or 0.
FindAccessory(accessories, uuid) ==
    LET hits == {k \in DOMAIN accessories : accessories[k].UUID = uuid}
    IN  IF hits = {} THEN 0 ELSE CHOOSE k \in hits : \A j \in hits : k <= j

\* configureAccessory (lines 268-283), for an accessory Homebridge restores
\* from its cache with the area it was last registered or updated with.
configureAccessory(p, accessory) ==
    [p EXCEPT !.accessories = Append(@, accessory),
              !.accessoryHandlers = @ \cup {accessory.UUID},
              !.handlerOf = SetHandler(@, accessory.UUID, NewHandler(accessory.area)),
              !.registered = Append(@, accessory.UUID)]

\* The loop of discoverDevices (lines 312-358) from the i-th area on.
RECURSIVE DiscoverLoop(_, _, _)
DiscoverLoop(p, olarmAreas, i) ==
    IF i > Len(olarmAreas)
    THEN p
    ELSE LET area == olarmAreas[i]
             uuid == UUIDOf(area)
             existingAccessory == FindAccessory(p.accessories, uuid)
         IN  DiscoverLoop(
                 IF existingAccessory # 0
                 THEN [p EXCEPT !.accessories[existingAccessory].area = area,
                                !.accessoryHandlers = @ \cup {uuid},
                                !.handlerOf =
                                    SetHandler(@, uuid,
                                        updateStateFromExternal(
                                            IF uuid \in DOMAIN @ THEN @[uuid]
                                            ELSE NewHandler(area),
                                            AreaStateOf(area)))]
                 ELSE [p EXCEPT !.accessories = Append(@, Accessory(area)),
                                !.accessoryHandlers = @ \cup {uuid},
                                !.handlerOf = SetHandler(@, uuid, NewHandler(area)),
                                !.registered = Append(@, uuid)],
                 olarmAreas, i + 1)

\* A mutation: no accessory is found obsolete.
accessoriesToUnregisterNone(accessories, currentAccessoryUUIDs) == {}

\* Lines 361-363: the UUIDs of the accessories that are not among the UUIDs
\* of the areas.
accessoriesToUnregister(accessories, currentAccessoryUUIDs) ==
    {accessories[k].UUID : k \in DOMAIN accessories} \ currentAccessoryUUIDs

\* discoverDevices (lines 290-384) with this.olarm set and this.areas = as.
discoverDevices(p, as) ==
    LET olarmAreas == getAreas(as)
        currentAccessoryUUIDs == {UUIDOf(olarmAreas[i]) : i \in DOMAIN olarmAreas}
        q == DiscoverLoop(p, olarmAreas, 1)
        obsolete == accessoriesToUnregister(q.accessories, currentAccessoryUUIDs)
        Kept(acc) == acc.UUID \notin obsolete
        KeptUUID(uuid) == uuid \notin obsolete
    IN  [q EXCEPT !.accessoryHandlers = @ \ obsolete,
                  !.handlerOf = DeleteHandlers(@, obsolete),
                  !.registered = SelectSeq(@, KeptUUID),
                  !.accessories = SelectSeq(@, Kept),
                  !.discovered = TRUE,
                  !.unregistered = obsolete]

\* The loop of updateAccessoryStates (lines 401-417) from the i-th area on.
RECURSIVE UpdateLoop(_, _, _, _)
UpdateLoop(p, as, olarmAreas, i) ==
    IF i > Len(olarmAreas)
    THEN p
    ELSE LET area == olarmAreas[i]
             uuid == UUIDOf(area)
             accessory == FindAccessory(p.accessories, uuid)
         IN  UpdateLoop(
                 IF uuid \in p.accessoryHandlers /\ accessory # 0
                 THEN [p EXCEPT !.accessories[accessory].area = area,
                                !.handlerOf[uuid] =
                                    updateStateFromExternal(@, AreaStateOf(area))]
                 ELSE discoverDevices(p, as),
                 as, olarmAreas, i + 1)

\* updateAccessoryStates (lines 390-418), the onStateUpdate callback of Olarm.
updateAccessoryStates(p, as) ==
    UpdateLoop(IF ~p.initialDeviceDiscoveryDone
               THEN [discoverDevices(p, as) EXCEPT !.initialDeviceDiscoveryDone = TRUE]
               ELSE p,
               as, getAreas(as), 1)

(***************************************************************************)
(* Olarm.processMqttMessage                                                *)
(***************************************************************************)
\* The test of line 58.
IsAlarmPayload(payload) ==
    /\ Truthy(payload)
    /\ payload.type = "alarmPayload"
    /\ Truthy(payload.data)
    /\ Truthy(payload.data.areas)

\* A mutation: the callback runs whatever parseAreasFromPayload returned.
StateUpdateCallsAlways(stateChanged) == 1

\* Lines 62-65: the number of times onStateUpdateCallback runs.
StateUpdateCalls(stateChanged) == IF stateChanged THEN 1 ELSE 0

\* What one call does: outcome "nonjson" (JSON.parse threw), "ignored" (not
\* an alarm payload), "threw" (an error caught by the outer handler) or
\* "parsed"; the new this.areas; the value parseAreasFromPayload returned and
\* the number of times onStateUpdateCallback ran.
ProcessResult(as, deviceId, message) ==
    IF message.kind # "json"
    THEN [outcome |-> "nonjson", areas |-> as, stateChanged |-> FALSE, callbacks |-> 0]
    ELSE IF ~IsAlarmPayload(message.payload)
    THEN [outcome |-> "ignored", areas |-> as, stateChanged |-> FALSE, callbacks |-> 0]
    ELSE LET r == parseAreasFromPayload(as, deviceId, message.payload)
         IN  IF r.threw
             THEN [outcome |-> "threw", areas |-> as, stateChanged |-> FALSE, callbacks |-> 0]
             ELSE [outcome |-> "parsed", areas |-> r.areas,
                   stateChanged |-> r.stateChanged,
                   callbacks |-> StateUpdateCalls(r.stateChanged)]

\* The sequence of one field of the areas of a device.
FieldsOfDevice(as, deviceId, field) ==
    LET own == AreasOfDevice(as, deviceId)
    IN  [i \in 1..Len(own) |-> own[i][field]]

\* last records the call: its arguments and its result, and what the store
\* held for the device when the call was made: priorCount areas; statesKept
\* (namesKept): the call left the sequence of the device's area states (names)
\* as it was; kept: the call left this.areas as it was; repeated: the call has the arguments of the call before it;
\* repeatedOnEmpty: and that call found no area stored for the device.
NoCall ==
    [op |-> "none", deviceId |-> "", message |-> TextMessage, outcome |-> "none",
     stateChanged |-> FALSE, callbacks |-> 0, priorCount |-> 0,
     statesKept |-> TRUE, namesKept |-> TRUE, kept |-> TRUE,
     repeated |-> FALSE, repeatedOnEmpty |-> FALSE]

SameCall(deviceId, message) ==
    /\ last.op = "processMqttMessage"
    /\ last.deviceId = deviceId
    /\ last.message = message

processMqttMessage(deviceId, message) ==
    \E r \in {ProcessResult(areas, deviceId, message)} :
        /\ areas' = r.areas
        /\ last' = [op |-> "processMqttMessage", deviceId |-> deviceId,
                    message |-> message, outcome |-> r.outcome,
                    stateChanged |-> r.stateChanged, callbacks |-> r.callbacks,
                    priorCount |-> Len(AreasOfDevice(areas, deviceId)),
                    statesKept |-> FieldsOfDevice(areas, deviceId, "areaState")
                                     = FieldsOfDevice(r.areas, deviceId, "areaState"),
                    namesKept |-> FieldsOfDevice(areas, deviceId, "areaName")
                                     = FieldsOfDevice(r.areas, deviceId, "areaName"),
                    kept |-> r.areas = areas,
                    repeated |-> SameCall(deviceId, message),
                    repeatedOnEmpty |-> SameCall(deviceId, message) /\ last.priorCount = 0]

\* The onStateUpdate callback the platform gives to Olarm (platform.ts, line
\* 82), run as many times as the call of processMqttMessage ran its callback.
onStateUpdate ==
    platform' = IF last'.callbacks > 0
                THEN updateAccessoryStates([platform EXCEPT !.discovered = FALSE], areas')
                ELSE [platform EXCEPT !.discovered = FALSE]

\* processMqttMessage of an Olarm whose callback does nothing but be counted.
StoreMessage(deviceId, message) ==
    /\ processMqttMessage(deviceId, message)
    /\ UNCHANGED <<convVars, poolVars, authVars, restVars>>

\* The 'message' handler of a client (platform.ts, lines 237-245); a
\* client receives the messages of its device while it is connected and
\* subscribed.
OnMessage(c, message) ==
    /\ clients[c].phase = "connected"
    /\ clients[c].subscription = "done"
    /\ processMqttMessage(clients[c].deviceId, message)
    /\ onStateUpdate
    /\ UNCHANGED <<convVars, poolVars, authVars, readerVars, lifeVars, mappingVars, handlerVars>>

StoreNext ==
    \E deviceId \in DeviceIds : \E message \in MessagesOf(deviceId) :
        StoreMessage(deviceId, message)

(***************************************************************************)
(* Readers of Olarm.getAreas.  A reader keeps the list it was handed and   *)
(* may write to it.  A list that is the reader's own (own = TRUE) shares   *)
(* nothing with the store; a list that is not is this.areas itself, and a  *)
(* write to it is a write to the store.                                    *)
(***************************************************************************)
MaxWrites == 2

\* A mutation: getAreas hands out this.areas itself.
SnapshotByReference(as) == [own |-> FALSE, list |-> as]

\* Lines 150-153: the result of JSON.parse(JSON.stringify(this.areas)) is a
\* new array of new objects.
Snapshot(as) == [own |-> TRUE, list |-> getAreas(as)]

\* taken: the reader holds a list; at: this.areas when it was handed out;
\* writes: the number of writes the reader has made to it.
NoSnapshot == [taken |-> FALSE, own |-> TRUE, list |-> <<>>, at |-> <<>>, writes |-> 0]

\* What a reader can do to a list: set a field of one of its areas, or
\* remove its last element.
WriteKinds == {"areaState", "areaName", "pop"}
WrittenArea(a, kind) ==
    IF kind = "areaState"
    THEN [areaName |-> a.areaName, deviceId |-> a.deviceId,
          areaNumber |-> a.areaNumber, areaState |-> Triggered]
    ELSE [a EXCEPT !.areaName = "renamed"]
Written(list, i, kind) ==
    IF kind = "pop"
    THEN SubSeq(list, 1, Len(list) - 1)
    ELSE [list EXCEPT ![i] = WrittenArea(list[i], kind)]

\* The store after a write to a list that is not the reader's own: the
\* array is this.areas until a frame replaces it (line 113), and an area
\* object is in both as long as the store keeps it.
WrittenThrough(as, list, i, kind) ==
    IF kind = "pop"
    THEN IF as = list THEN Written(as, i, kind) ELSE as
    ELSE [j \in 1..Len(as) |->
            IF as[j] = list[i] THEN WrittenArea(as[j], kind) ELSE as[j]]

\* platform.ts, lines 296 and 399: a reader calls getAreas.
GetAreasCall ==
    /\ \E s \in {Snapshot(areas)} :
        snapshot' = [taken |-> TRUE, own |-> s.own, list |-> s.list,
                     at |-> areas, writes |-> 0]
    /\ UNCHANGED <<storeVars, convVars, poolVars, authVars, lifeVars, accessoryVars, mappingVars, handlerVars>>

ReaderWrites(i, kind) ==
    /\ snapshot.taken
    /\ snapshot.writes < MaxWrites
    /\ i \in 1..Len(snapshot.list)
    /\ snapshot' = [snapshot EXCEPT !.list = Written(snapshot.list, i, kind),
                                    !.writes = @ + 1]
    /\ areas' = IF snapshot.own THEN areas
                ELSE WrittenThrough(areas, snapshot.list, i, kind)
    /\ UNCHANGED <<last, convVars, poolVars, authVars, lifeVars, accessoryVars, mappingVars, handlerVars>>

ReaderNext ==
    \/ \E deviceId \in DeviceIds : \E message \in SampleMessages :
          StoreMessage(deviceId, message)
    \/ GetAreasCall
    \/ \E i \in 1..MaxAreas : \E kind \in WriteKinds : ReaderWrites(i, kind)

(***************************************************************************)
(* The MQTT client pool: OlarmHomebridgePlatform.initializeMQTTForDevice,  *)
(* the events of its clients, and shutdown                                 *)
(***************************************************************************)
\* The devices of the account (Auth.getDevices), and the id of a device that
\* is no longer among them but still named by a cached accessory.
Device(id) == [id |-> id, IMEI |-> "imei-" \o id]
StaleDeviceId == "D9"
AreaDeviceIds == DeviceIds \cup {StaleDeviceId}

NoClient == 0
\* platform.mqttClients = new Map() (no client for any device).
NoClients == [d \in AreaDeviceIds |-> NoClient]

\* A client: the device it was created for; phase "connecting" (no CONNACK
\* yet), "connected", "offline" (connection lost, the client reconnects by
\* itself) or "ended" (end(true) was called); whether the once('connect') and
\* once('error') handlers are still attached; the state of the subscription
\* ("none", "pending", "done", "failed"); the GET requests published; the
\* password of its options, which is the access token of the moment it was
\* created (lines 127 and 139); the password of the last connect attempt the
\* broker refused (null: none was refused).
NewClient(deviceId) ==
    [deviceId |-> deviceId, phase |-> "connecting", onConnect |-> TRUE,
     onInitialError |-> TRUE, subscription |-> "none", gets |-> 0,
     password |-> auth.accessToken, refusedWith |-> JNull]

\* A mutation: every client counts as connected.
ConnectedAlways(c) == TRUE

\* mqttClient.connected
Connected(c) == clients[c].phase = "connected"
Live(c) == clients[c].phase # "ended"

\* client.end(true)
End(cs, c) == [cs EXCEPT ![c].phase = "ended"]

\* this.mqttClients.delete(deviceId)
Delete(map, deviceId) == [map EXCEPT ![deviceId] = NoClient]

\* Lines 127-171: without an access token the promise is rejected; an
\* existing connected client is kept; an existing client that is not
\* connected is ended and removed; then a client is created and stored.
initializeMQTTForDevice(deviceId) ==
    LET existingClient == mqttClients[deviceId]
    IN  IF ~Truthy(auth.accessToken)
        THEN UNCHANGED <<clients, mqttClients>>
        ELSE IF existingClient # NoClient /\ Connected(existingClient)
        THEN UNCHANGED <<clients, mqttClients>>
        ELSE /\ Len(clients) < MaxClients
             /\ clients' = Append(IF existingClient # NoClient
                                  THEN End(clients, existingClient)
                                  ELSE clients,
                                  NewClient(deviceId))
             /\ mqttClients' = [mqttClients EXCEPT ![deviceId] = Len(clients) + 1]

InitializeMQTT(deviceId) ==
    /\ initializeMQTTForDevice(deviceId)
    /\ UNCHANGED <<devicesMap, dispatch, storeVars, convVars, authVars, restVars>>

\* The transport acknowledges the connection (CONNACK): the client is
\* connected; the first time, onConnect runs (lines 177-200): it detaches
\* onInitialError and subscribes.
Connack(c) ==
    /\ clients[c].phase \in {"connecting", "offline"}
    /\ clients' = [clients EXCEPT
                     ![c].phase = "connected",
                     ![c].onConnect = FALSE,
                     ![c].onInitialError = IF clients[c].onConnect THEN FALSE ELSE @,
                     ![c].subscription = IF clients[c].onConnect THEN "pending" ELSE @]
    /\ UNCHANGED <<mqttClients, devicesMap, dispatch, storeVars, convVars, authVars, restVars>>

\* The subscribe callback with no error (lines 194-198): the GET request is
\* published.
SubscribeGranted(c) ==
    /\ Live(c)
    /\ clients[c].subscription = "pending"
    /\ clients' = [clients EXCEPT ![c].subscription = "done", ![c].gets = @ + 1]
    /\ UNCHANGED <<mqttClients, devicesMap, dispatch, storeVars, convVars, authVars, restVars>>

\* The subscribe callback with an error (lines 187-193): the client is ended
\* and the map entry of its device removed.
SubscribeFailed(c) ==
    /\ Live(c)
    /\ clients[c].subscription = "pending"
    /\ clients' = End([clients EXCEPT ![c].subscription = "failed"], c)
    /\ mqttClients' = Delete(mqttClients, clients[c].deviceId)
    /\ UNCHANGED <<devicesMap, dispatch, storeVars, convVars, authVars, restVars>>

\* An 'error' event while onInitialError is attached (lines 203-211): the
\* client is ended and the map entry of its device removed.
InitialError(c) ==
    /\ Live(c)
    /\ clients[c].onInitialError
    /\ clients' = End([clients EXCEPT ![c].onInitialError = FALSE], c)
    /\ mqttClients' = Delete(mqttClients, clients[c].deviceId)
    /\ UNCHANGED <<devicesMap, dispatch, storeVars, convVars, authVars, restVars>>

\* The broker refuses a connect attempt (CONNACK with return code 5, an
\* 'error' event).  While onInitialError is attached it runs (lines 203-211):
\* the client is ended and the map entry of its device removed.  Afterwards
\* onPersistentError runs (lines 214-217), which only logs: the client keeps
\* its options and connects again after reconnectPeriod (line 144).
ConnectRefused(c) ==
    /\ clients[c].phase \in {"connecting", "offline"}
    /\ IF clients[c].onInitialError
       THEN /\ clients' = End([clients EXCEPT ![c].onInitialError = FALSE,
                                              ![c].refusedWith = clients[c].password], c)
            /\ mqttClients' = Delete(mqttClients, clients[c].deviceId)
       ELSE /\ clients' = [clients EXCEPT ![c].refusedWith = clients[c].password]
            /\ UNCHANGED mqttClients
    /\ UNCHANGED <<devicesMap, dispatch, storeVars, convVars, authVars, restVars>>

\* The connection of a connected client is lost; the client stays in the
\* map and reconnects by itself (reconnectPeriod).
ConnectionLost(c) ==
    /\ Connected(c)
    /\ clients' = [clients EXCEPT ![c].phase = "offline"]
    /\ UNCHANGED <<mqttClients, devicesMap, dispatch, storeVars, convVars, authVars, restVars>>

\* The 'shutdown' event, emitted once (lines 47 and 421-434): every client
\* of the map is ended and the map cleared.
shutdown ==
    /\ ~stopped
    /\ stopped' = TRUE
    /\ clients' = [c \in DOMAIN clients |->
                     IF \E d \in DeviceIds : mqttClients[d] = c
                     THEN [clients[c] EXCEPT !.phase = "ended"]
                     ELSE clients[c]]
    /\ mqttClients' = NoClients
    /\ platform' = [platform EXCEPT !.accessoryHandlers = {}, !.handlerOf = NoHandlers,
                                    !.discovered = FALSE]
    /\ UNCHANGED <<devicesMap, dispatch, storeVars, convVars, authVars, readerVars, mappingVars, handlerVars>>

\* The events of the clients that initializeOlarmAndMQTT created.
LifecycleNext ==
    \/ \E c \in DOMAIN clients : Connack(c)
    \/ \E c \in DOMAIN clients : SubscribeGranted(c)
    \/ \E c \in DOMAIN clients : SubscribeFailed(c)
    \/ \E c \in DOMAIN clients : InitialError(c)
    \/ \E c \in DOMAIN clients : ConnectRefused(c)
    \/ \E c \in DOMAIN clients : ConnectionLost(c)
    \/ shutdown

(***************************************************************************)
(* The platform from the restored cache to the discovery of                *)
(* initializePlugin                                                        *)
(***************************************************************************)
\* The accessories Homebridge can hold in its cache when the plugin starts:
\* none, the first area of a device, the area of a device that is no longer
\* in the account, or both.
CachedAreas ==
    {<<>>,
     <<OlarmArea("Zone 1", "D1", 1, Disarmed)>>,
     <<OlarmArea("Zone 1", "D9", 1, Armed)>>,
     <<OlarmArea("Zone 1", "D9", 1, Armed), OlarmArea("Zone 1", "D1", 1, Disarmed)>>}

\* The platform after Homebridge has restored the cached accessories.
RECURSIVE Restored(_)
Restored(cache) ==
    IF cache = <<>>
    THEN NewPlatform
    ELSE configureAccessory(Restored(SubSeq(cache, 1, Len(cache) - 1)),
                            Accessory(cache[Len(cache)]))

\* initializePlugin after initializeOlarmAndMQTT (lines 90-91).
InitialDiscovery ==
    /\ ~platform.initialized
    /\ platform' = [discoverDevices(platform, areas) EXCEPT
                       !.initialDeviceDiscoveryDone = TRUE, !.initialized = TRUE]
    /\ UNCHANGED <<storeVars, convVars, poolVars, authVars, readerVars, lifeVars, mappingVars, handlerVars>>

\* The platform after initializePlugin, with no accessory in the cache.
InitializedPlatform ==
    [NewPlatform EXCEPT !.initialDeviceDiscoveryDone = TRUE, !.initialized = TRUE,
                        !.discovered = TRUE]

PlatformNext ==
    \/ \E c \in DOMAIN clients : \E message \in SampleMessages : OnMessage(c, message)
    \/ InitialDiscovery
    \/ shutdown

(***************************************************************************)
(* Olarm.setArea                                                           *)
(***************************************************************************)
\* JSON.stringify of an array element: undefined is written as null.
JsonElement(v) == IF v = Undefined THEN Null ELSE v

\* Lines 171-186: the topic and the message of a command.
ControlTopic(device) == "si/app/v2/" \o device.IMEI \o "/control"
ControlMessage(action, areaNumber) ==
    [method |-> "POST", data |-> <<JsonElement(action), areaNumber>>]

\* What a call does before it waits for the publish callback: "noClient"
\* (lines 158-162: return false), "noDevice" (lines 165-169: return false) or
\* "publish" (lines 171-203).
SetAreaStep(deviceId) ==
    IF mqttClients[deviceId] = NoClient \/ ~Connected(mqttClients[deviceId])
    THEN "noClient"
    ELSE IF deviceId \notin DOMAIN devicesMap
    THEN "noDevice"
    ELSE "publish"

\* A mutation: the early returns report success.
EarlyReturnSuccess(step) == TRUE

\* The value setArea returns without publishing (lines 161 and 168).
EarlyReturn(step) ==
    CASE step = "noClient" -> FALSE
      [] step = "noDevice" -> FALSE

Idle == [state |-> "idle"]

\* The call of setArea(area, action), up to its return or to the publish.
\* dispatch records the arguments, the client found in the map and whether
\* it was connected (ready), the step taken, the messages handed to
\* mqttClient.publish (sent), the error of the publish callback and the
\* value the promise resolved to.
setAreaCall(deviceId, areaNumber, action) ==
    /\ dispatch.state # "pending"
    /\ LET step == SetAreaStep(deviceId)
           client == mqttClients[deviceId]
           call == [deviceId |-> deviceId, areaNumber |-> areaNumber,
                    action |-> action, step |-> step, client |-> client,
                    ready |-> client # NoClient /\ clients[client].phase = "connected",
                    error |-> FALSE]
       IN  IF step = "publish"
           THEN dispatch' = call @@
                    [state |-> "pending",
                     sent |-> <<[client |-> client,
                                 topic |-> ControlTopic(devicesMap[deviceId]),
                                 message |-> ControlMessage(action, areaNumber),
                                 qos |-> 1, retain |-> FALSE]>>,
                     result |-> FALSE]
           ELSE dispatch' = call @@
                    [state |-> "returned", sent |-> <<>>, result |-> EarlyReturn(step)]

\* A setArea call made on its own.
setArea(deviceId, areaNumber, action) ==
    /\ setAreaCall(deviceId, areaNumber, action)
    /\ UNCHANGED <<devicesMap, clients, mqttClients, storeVars, convVars, authVars, restVars>>

\* The value the promise resolves to in the publish callback (lines 194-201).
Resolved(error) == IF error THEN FALSE ELSE TRUE

\* A mutation: a published Arm command is written to the stored area at once.
AreasAfterPublishOptimistic(as, call, error) ==
    IF error \/ call.action # AreaArm
    THEN as
    ELSE [i \in DOMAIN as |->
            IF as[i].deviceId = call.deviceId /\ as[i].areaNumber = call.areaNumber
            THEN [as[i] EXCEPT !.areaState = Armed]
            ELSE as[i]]

\* this.areas after the publish callback (lines 194-201): no optimistic
\* update, the state is left to the confirmation message.
AreasAfterPublish(as, call, error) == as

\* The publish callback (lines 193-202).
PublishCallback(error) ==
    /\ dispatch.state = "pending"
    /\ dispatch' = [dispatch EXCEPT !.state = "returned", !.error = error,
                                    !.result = Resolved(error)]
    /\ areas' = AreasAfterPublish(areas, dispatch, error)
    /\ UNCHANGED <<devicesMap, clients, mqttClients, last, convVars, authVars, restVars>>

\* The constructor of Olarm (lines 34-37): the devices of Auth by id.
DevicesMapOf(devices) ==
    [id \in {devices[i].id : i \in DOMAIN devices} |->
        devices[CHOOSE i \in DOMAIN devices :
                    devices[i].id = id /\ \A j \in DOMAIN devices : devices[j].id = id => j <= i]]


\* The actions a command request can name.
RequestedActions == {AreaArm, AreaStay, AreaSleep, AreaDisarm}

PoolNext ==
    \/ \E d \in DeviceIds : InitializeMQTT(d)
    \/ \E c \in DOMAIN clients : Connack(c)
    \/ \E c \in DOMAIN clients : SubscribeGranted(c)
    \/ \E c \in DOMAIN clients : SubscribeFailed(c)
    \/ \E c \in DOMAIN clients : InitialError(c)
    \/ \E c \in DOMAIN clients : ConnectionLost(c)
    \/ shutdown
    \/ \E d \in AreaDeviceIds, n \in 1..MaxAreas, a \in RequestedActions : setArea(d, n, a)
    \/ \E error \in BOOLEAN : PublishCallback(error)

\* Commands of the accessories while frames arrive.
CommandNext ==
    \/ \E d \in DeviceIds : \E message \in SampleMessages : StoreMessage(d, message)
    \/ \E d \in DeviceIds, n \in 1..MaxAreas, a \in {AreaArm, AreaDisarm} : setArea(d, n, a)
    \/ \E error \in BOOLEAN : PublishCallback(error)

(***************************************************************************)
(* Auth: the session, the tokens file and the callers of initialize        *)
(*                                                                         *)
(* auth holds the fields of the Auth object (userIndex, userId,            *)
(* accessToken, refreshToken, tokenExpiration, devices), the tokens file,  *)
(* the clock (now, in milliseconds), the number of token pairs the server  *)
(* has issued, the number of requests made to each endpoint, and for every *)
(* caller the stack of its suspended async functions.  A frame names the   *)
(* function and the await it is suspended at; the head of the stack is the *)
(* innermost frame.  An action runs one continuation: from the completion  *)
(* of the awaited operation to the next await.                             *)
(***************************************************************************)
Callers == 1..MaxCallers

\* clearTokens (lines 387-393)
NoTokens ==
    [userIndex |-> JNull, userId |-> JNull, accessToken |-> JNull,
     refreshToken |-> JNull, tokenExpiration |-> JNull]

clearTokens(a) ==
    [a EXCEPT !.userIndex = JNull, !.userId = JNull, !.accessToken = JNull,
              !.refreshToken = JNull, !.tokenExpiration = JNull]

\* getTokens (lines 79-87)
getTokens(a) ==
    [userIndex |-> a.userIndex, userId |-> a.userId, accessToken |-> a.accessToken,
     refreshToken |-> a.refreshToken, tokenExpiration |-> a.tokenExpiration]

\* const buffer = 5 * 60 * 1000 (line 329)
Buffer == 5 * 60 * 1000

\* The server: the n-th token pair it issues, the lifetime of an access
\* token, the oatExpire (in seconds) of a token issued at time now, the
\* user and the devices of the account.
AccessTokenOf(n) == JString(<<"oat", ToString(n)>>)
RefreshTokenOf(n) == JString(<<"ort", ToString(n)>>)
TokenLifetime == 2 * Buffer
OatExpire(now) == JNumber((now + TokenLifetime) \div 1000)
AccountUser == [userIndex |-> JNumber(1), userId |-> JString(<<"user">>)]
AccountDevices == <<Device("D1"), Device("D2")>>

\* (data.oatExpire && typeof data.oatExpire === 'number')
\*     ? data.oatExpire * 1000 : null      (lines 136 and 309)
ExpirationOf(oatExpire) ==
    IF Truthy(oatExpire) /\ oatExpire.t = "number"
    THEN JNumber(oatExpire.n * 1000)
    ELSE JNull

\* typeof v === type ? v : null (lines 355-359)
OfType(v, type) == IF v.t = type THEN v ELSE JNull

\* The tokens file: absent, unreadable, or the JSON text of a Tokens object.
NoFile == [kind |-> "absent"]
CorruptFile == [kind |-> "corrupt"]
JsonFile(tokens) == [kind |-> "json", tokens |-> tokens]

Suspended(at) == [at |-> at, tokensToSave |-> NoTokens]
Top(c) == Head(auth.stack[c])
At(c, at) == auth.stack[c] # <<>> /\ Top(c).at = at

Push(a, c, frame) == [a EXCEPT !.stack[c] = <<frame>> \o @]
\* The innermost function returns.
Return(a, c) == [a EXCEPT !.stack[c] = Tail(@)]
\* The innermost function goes on to its next await.
Goto(a, c, at) == [a EXCEPT !.stack[c] = <<Suspended(at)>> \o Tail(@)]
Requested(a, endpoint) == [a EXCEPT !.fetches[endpoint] = @ + 1]

\* attempt records the last call of login or refreshAccessToken made for
\* the first caller: which of the two (op); before: the session and the
\* tokens file when it was called; answer: "pending", "ok" when it returned,
\* or what made it throw; ended: it has returned or thrown.
Traced(c) == c = 1
NoAttempt ==
    [op |-> "none", answer |-> "none", ended |-> TRUE,
     before |-> [tokens |-> NoTokens, file |-> NoFile]]
Begin(a, c, op) ==
    IF Traced(c)
    THEN [a EXCEPT !.attempt =
            [op |-> op, answer |-> "pending", ended |-> FALSE,
             before |-> [tokens |-> getTokens(a), file |-> a.file]]]
    ELSE a
Answered(a, c, answer) ==
    IF Traced(c) /\ ~a.attempt.ended THEN [a EXCEPT !.attempt.answer = answer] ELSE a
Ended(a, c) == IF Traced(c) THEN [a EXCEPT !.attempt.ended = TRUE] ELSE a

\* login, up to the fetch (lines 105-121).
login(a, c) ==
    Push(Requested(Begin(a, c, "login"), "login"), c, Suspended("login:fetch"))

\* An exception in the innermost function.  The only catch block that does
\* more than throw again is that of ensureAccessToken around
\* refreshAccessToken (lines 340-344), which calls login; an exception that
\* meets no such frame rejects the promise of initialize.
\* A mutation: ensureAccessToken without its catch block.
CatchFramesNone(a, c) == {}

CatchFrames(a, c) ==
    {i \in DOMAIN a.stack[c] : a.stack[c][i].at = "ensureAccessToken:refresh"}

Throw(a, c) ==
    IF CatchFrames(a, c) = {}
    THEN Ended([a EXCEPT !.stack[c] = <<>>, !.outcome[c] = "rejected"], c)
    ELSE LET i == CHOOSE i \in CatchFrames(a, c) : \A j \in CatchFrames(a, c) : i <= j
         IN  login([a EXCEPT !.stack[c] =
                        <<Suspended("ensureAccessToken:login")>>
                        \o SubSeq(a.stack[c], i + 1, Len(a.stack[c]))], c)

\* fetchUserIndex, up to the fetch (lines 147-166).
fetchUserIndex(a, c) ==
    IF ~Truthy(a.accessToken)
    THEN Throw(a, c)
    ELSE Push(Requested(a, "userIndex"), c, Suspended("fetchUserIndex:fetch"))

\* saveTokensToStorage, up to the write (lines 370-379).
saveTokensToStorage(a, c) ==
    Push(a, c, [at |-> "saveTokensToStorage:writeJSON", tokensToSave |-> getTokens(a)])

\* refreshAccessToken, up to the fetch (lines 269-290).
refreshAccessToken(a, c) ==
    IF ~Truthy(a.refreshToken)
    THEN Throw(Answered(Begin(a, c, "refresh"), c, "noRefreshToken"), c)
    ELSE Push(Requested(Begin(a, c, "refresh"), "refresh"), c,
              Suspended("refreshAccessToken:fetch"))

\* A mutation: a token that expires in exactly five minutes is not refreshed.
NeedsRefreshLate(a) ==
    \/ ~Truthy(a.accessToken)
    \/ ~Truthy(a.tokenExpiration)
    \/ a.now > a.tokenExpiration.n - Buffer

\* !this.accessToken || !this.tokenExpiration
\*     || now >= (this.tokenExpiration - buffer)     (line 330)
NeedsRefresh(a) ==
    \/ ~Truthy(a.accessToken)
    \/ ~Truthy(a.tokenExpiration)
    \/ a.now >= a.tokenExpiration.n - Buffer

\* ensureAccessToken, up to its first await or to its return (lines 326-348).
ensureAccessToken(a, c) ==
    IF NeedsRefresh(a)
    THEN refreshAccessToken(Push(a, c, Suspended("ensureAccessToken:refresh")), c)
    ELSE a

\* fetchDevices, up to the fetch (lines 193-208).
fetchDevices(a, c) ==
    IF ~Truthy(a.accessToken) \/ a.userIndex = JNull
    THEN Throw(a, c)
    ELSE Push(Requested(a, "devices"), c, Suspended("fetchDevices:fetch"))

\* loadTokensFromStorage, up to fs.pathExists (lines 351-353).
loadTokensFromStorage(a, c) == Push(a, c, Suspended("loadTokensFromStorage:pathExists"))

\* The requests made so far; a continuation runs only if it stays within
\* MaxFetches.
Fetches(a) ==
    a.fetches["login"] + a.fetches["refresh"] + a.fetches["userIndex"] + a.fetches["devices"]

Continue(next) ==
    /\ Fetches(next) <= MaxFetches
    /\ auth' = next
    /\ UNCHANGED <<storeVars, convVars, poolVars, restVars>>

NoSession(a) ==
    /\ ~Truthy(a.accessToken)
    /\ ~Truthy(a.refreshToken)
    /\ a.file.kind # "json"

\* A caller calls initialize (lines 54-56).  started records whether a
\* session existed in memory or in the file at that moment.
initialize(c) ==
    /\ auth.outcome[c] = "idle"
    /\ Continue(loadTokensFromStorage(
           [auth EXCEPT !.outcome[c] = "running",
                        !.started[c] = IF NoSession(auth) THEN "noSession" ELSE "session",
                        !.stack[c] = <<Suspended("initialize:loadTokensFromStorage")>>], c))

\* fs.pathExists completes (lines 353, 361-363).
PathExists(c) ==
    /\ At(c, "loadTokensFromStorage:pathExists")
    /\ Continue(IF auth.file.kind = "absent"
                THEN Return(auth, c)
                ELSE Goto(auth, c, "loadTokensFromStorage:readJSON"))

\* fs.readJSON completes or throws (lines 354-367).
ReadJSON(c) ==
    /\ At(c, "loadTokensFromStorage:readJSON")
    /\ Continue(Return(
           IF auth.file.kind = "json"
           THEN [auth EXCEPT
                   !.userIndex = OfType(auth.file.tokens.userIndex, "number"),
                   !.userId = OfType(auth.file.tokens.userId, "string"),
                   !.accessToken = OfType(auth.file.tokens.accessToken, "string"),
                   !.refreshToken = OfType(auth.file.tokens.refreshToken, "string"),
                   !.tokenExpiration = OfType(auth.file.tokens.tokenExpiration, "number")]
           ELSE clearTokens(auth), c))

\* initialize after loadTokensFromStorage (lines 58-64).
InitializeLoaded(c) ==
    /\ At(c, "initialize:loadTokensFromStorage")
    /\ Continue(IF ~Truthy(auth.accessToken) \/ ~Truthy(auth.refreshToken)
                THEN login(Goto(auth, c, "initialize:login"), c)
                ELSE ensureAccessToken(Goto(auth, c, "initialize:ensureAccessToken"), c))

\* The answers to a login or refresh request: no answer ("network"), a
\* status that is not ok (401 "unauthorized", 503 "serverError"), or a token
\* pair with or without a numeric oatExpire.
TokenAnswers == {"network", "unauthorized", "serverError", "tokens", "tokensNoExpire"}

\* response.ok (lines 127 and 297)
ResponseOk(answer) == answer \notin {"unauthorized", "serverError"}

\* this.accessToken = data.oat ... (lines 133-136 and 307-309)
Issue(a, answer) ==
    [a EXCEPT !.issued = @ + 1,
              !.accessToken = AccessTokenOf(a.issued + 1),
              !.refreshToken = RefreshTokenOf(a.issued + 1),
              !.tokenExpiration = ExpirationOf(IF answer = "tokens"
                                               THEN OatExpire(a.now)
                                               ELSE JUndefined)]

\* The login fetch completes (lines 122-139).
LoginResponse(c, answer) ==
    /\ At(c, "login:fetch")
    /\ Continue(IF answer = "network" \/ ~ResponseOk(answer)
                THEN Throw(Answered(auth, c, answer), c)
                ELSE fetchUserIndex(Goto(Issue(auth, answer), c, "login:fetchUserIndex"), c))

\* The answers to the user index request; "missing": a body without
\* userIndex or userId.
UserIndexAnswers == {"network", "status", "user", "missing"}

\* The user index fetch completes (lines 167-190).
UserIndexResponse(c, answer) ==
    /\ At(c, "fetchUserIndex:fetch")
    /\ Continue(IF answer = "user"
                THEN Return([auth EXCEPT !.userIndex = AccountUser.userIndex,
                                         !.userId = AccountUser.userId], c)
                ELSE Throw(Answered(auth, c, IF answer = "network" THEN "network"
                                                 ELSE "userIndex"), c))

\* login after fetchUserIndex (line 140).
LoginUserIndexFetched(c) ==
    /\ At(c, "login:fetchUserIndex")
    /\ Continue(saveTokensToStorage(Goto(auth, c, "login:saveTokensToStorage"), c))

\* fs.writeJSON completes or throws (lines 378-383).
WriteJSON(c, written) ==
    /\ At(c, "saveTokensToStorage:writeJSON")
    /\ Continue(Return(IF written
                       THEN [auth EXCEPT !.file = JsonFile(Top(c).tokensToSave)]
                       ELSE auth, c))

\* login after saveTokensToStorage (lines 140-145).
LoginSaved(c) ==
    /\ At(c, "login:saveTokensToStorage")
    /\ Continue(Return(Ended(Answered(auth, c, "ok"), c), c))

\* initialize after login (lines 60, 74-75).
InitializeLoggedIn(c) ==
    /\ At(c, "initialize:login")
    /\ Continue(fetchDevices(Goto(auth, c, "initialize:fetchDevices"), c))

\* The refresh fetch completes (lines 291-319).
RefreshResponse(c, answer) ==
    /\ At(c, "refreshAccessToken:fetch")
    /\ Continue(
         CASE answer = "network" -> Throw(Answered(auth, c, answer), c)
           [] ~ResponseOk(answer) ->
                saveTokensToStorage(
                    Goto(clearTokens(Answered(auth, c, answer)), c,
                         "refreshAccessToken:saveCleared"), c)
           [] OTHER ->
                LET a == Issue(auth, answer)
                IN  IF a.userIndex = JNull \/ a.userId = JNull
                    THEN fetchUserIndex(Goto(a, c, "refreshAccessToken:fetchUserIndex"), c)
                    ELSE saveTokensToStorage(
                             Goto(a, c, "refreshAccessToken:saveTokensToStorage"), c))

\* refreshAccessToken after saving the cleared tokens (lines 301-302).
RefreshClearedSaved(c) ==
    /\ At(c, "refreshAccessToken:saveCleared")
    /\ Continue(Throw(Return(auth, c), c))

\* refreshAccessToken after fetchUserIndex (lines 316-319).
RefreshUserIndexFetched(c) ==
    /\ At(c, "refreshAccessToken:fetchUserIndex")
    /\ Continue(saveTokensToStorage(
           Goto(auth, c, "refreshAccessToken:saveTokensToStorage"), c))

\* refreshAccessToken after saveTokensToStorage (lines 319-324).
RefreshSaved(c) ==
    /\ At(c, "refreshAccessToken:saveTokensToStorage")
    /\ Continue(Return(Ended(Answered(auth, c, "ok"), c), c))

\* ensureAccessToken after refreshAccessToken (lines 339, 348).
EnsureRefreshed(c) ==
    /\ At(c, "ensureAccessToken:refresh")
    /\ Continue(Return(auth, c))

\* ensureAccessToken after the login of its catch block (lines 343-348).
EnsureLoggedIn(c) ==
    /\ At(c, "ensureAccessToken:login")
    /\ Continue(Return(auth, c))

\* initialize after ensureAccessToken (lines 64-75).
InitializeEnsured(c) ==
    /\ At(c, "initialize:ensureAccessToken")
    /\ Continue(IF auth.userIndex = JNull \/ auth.userId = JNull
                THEN fetchUserIndex(Goto(auth, c, "initialize:fetchUserIndex"), c)
                ELSE fetchDevices(Goto(auth, c, "initialize:fetchDevices"), c))

\* initialize after fetchUserIndex (line 70).
InitializeUserIndexFetched(c) ==
    /\ At(c, "initialize:fetchUserIndex")
    /\ Continue(saveTokensToStorage(Goto(auth, c, "initialize:saveTokensToStorage"), c))

\* initialize after saveTokensToStorage (lines 70-75).
InitializeSaved(c) ==
    /\ At(c, "initialize:saveTokensToStorage")
    /\ Continue(fetchDevices(Goto(auth, c, "initialize:fetchDevices"), c))

\* The answers to the devices request: no answer, status 401, another
\* status that is not ok, a body with a devices array, a body without.
DevicesAnswers == {"network", "unauthorized", "status", "devices", "unexpected"}

\* The devices fetch completes (lines 209-253).
DevicesResponse(c, answer) ==
    /\ At(c, "fetchDevices:fetch")
    /\ Continue(
         CASE answer \in {"network", "status"} -> Throw(auth, c)
           [] answer = "unauthorized" ->
                refreshAccessToken(Goto(auth, c, "fetchDevices:refreshAccessToken"), c)
           [] answer = "devices" ->
                Return([auth EXCEPT !.devices = AccountDevices], c)
           [] answer = "unexpected" ->
                Return([auth EXCEPT !.devices = <<>>], c))

\* fetchDevices after the refresh that followed a 401 (lines 220-223).
DevicesRefreshed(c) ==
    /\ At(c, "fetchDevices:refreshAccessToken")
    /\ Continue(fetchDevices(Goto(auth, c, "fetchDevices:fetchDevices"), c))

\* fetchDevices after its retry (line 224).
DevicesRetried(c) ==
    /\ At(c, "fetchDevices:fetchDevices")
    /\ Continue(Return(auth, c))

\* initialize after fetchDevices (lines 75-77).
InitializeDone(c) ==
    /\ At(c, "initialize:fetchDevices")
    /\ Continue([auth EXCEPT !.stack[c] = <<>>, !.outcome[c] = "resolved"])

\* Time passes: Date.now() has grown by Buffer.
Tick ==
    /\ auth.now < MaxTicks * Buffer
    /\ Continue([auth EXCEPT !.now = @ + Buffer])

\* The tokens files the plugin can find when it starts: none, an unreadable
\* one, one written by a version that did not store userIndex and userId,
\* and one written by saveTokensToStorage after a login at time 0.
OldTokens ==
    [NoTokens EXCEPT !.accessToken = AccessTokenOf(0),
                     !.refreshToken = RefreshTokenOf(0),
                     !.tokenExpiration = ExpirationOf(OatExpire(0))]
SavedTokens ==
    [OldTokens EXCEPT !.userIndex = AccountUser.userIndex,
                      !.userId = AccountUser.userId]
InitialFiles == {NoFile, CorruptFile, JsonFile(OldTokens), JsonFile(SavedTokens)}
\* The file written after a login whose answer had no numeric oatExpire.
UndatedTokens == [SavedTokens EXCEPT !.tokenExpiration = JNull]

\* The Auth object after its constructor (lines 34-52).
NewAuth(file) ==
    NoTokens @@
    [devices |-> <<>>, file |-> file, now |-> 0, issued |-> 0,
     fetches |-> [e \in {"login", "refresh", "userIndex", "devices"} |-> 0],
     stack |-> [c \in Callers |-> <<>>],
     outcome |-> [c \in Callers |-> "idle"],
     attempt |-> NoAttempt,
     started |-> [c \in Callers |-> "idle"]]

\* One continuation of the initialize call of caller c.
AuthStep(c) ==
    \/ initialize(c)
    \/ PathExists(c)
    \/ ReadJSON(c)
    \/ InitializeLoaded(c)
    \/ \E answer \in TokenAnswers : LoginResponse(c, answer)
    \/ \E answer \in UserIndexAnswers : UserIndexResponse(c, answer)
    \/ LoginUserIndexFetched(c)
    \/ \E written \in BOOLEAN : WriteJSON(c, written)
    \/ LoginSaved(c)
    \/ InitializeLoggedIn(c)
    \/ \E answer \in TokenAnswers : RefreshResponse(c, answer)
    \/ RefreshClearedSaved(c)
    \/ RefreshUserIndexFetched(c)
    \/ RefreshSaved(c)
    \/ EnsureRefreshed(c)
    \/ EnsureLoggedIn(c)
    \/ InitializeEnsured(c)
    \/ InitializeUserIndexFetched(c)
    \/ InitializeSaved(c)
    \/ \E answer \in DevicesAnswers : DevicesResponse(c, answer)
    \/ DevicesRefreshed(c)
    \/ DevicesRetried(c)
    \/ InitializeDone(c)

AuthNext ==
    \/ \E c \in Callers : AuthStep(c)
    \/ Tick

\* The platform calls initialize once (platform.ts, line 73).
SessionNext ==
    \/ AuthStep(1)
    \/ Tick

\* A result that has not been evaluated yet.
Pending == "pending"

(***************************************************************************)
(* The HomeKit conversions of OlarmAreaPlatformAccessory                   *)
(* (platformAccessory.ts)                                                  *)
(***************************************************************************)
\* Characteristic.SecuritySystemTargetState and SecuritySystemCurrentState
STAY_ARM == 0
AWAY_ARM == 1
NIGHT_ARM == 2
DISARM == 3
ALARM_TRIGGERED == 4
NoValue == 0 - 1

\* The values HomeKit can set, and a value that is none of them.
SettableValues == {AWAY_ARM, NIGHT_ARM, STAY_ARM, DISARM}
TargetValues == SettableValues \cup {ALARM_TRIGGERED}

\* convertToOlarmAreaAction (lines 183-199)
convertToOlarmAreaAction(value) ==
    CASE value = STAY_ARM -> AreaStay
      [] value = AWAY_ARM -> AreaArm
      [] value = NIGHT_ARM -> AreaSleep
      [] value = DISARM -> AreaDisarm
      [] OTHER -> Null

\* The switch of handleSecuritySystemTargetStateSet (lines 238-244); without
\* a matching case newTargetState stays undefined.
TargetStateOfAction(requestedAction) ==
    CASE requestedAction = AreaArm -> Armed
      [] requestedAction = AreaStay -> ArmedStay
      [] requestedAction = AreaSleep -> ArmedSleep
      [] requestedAction = AreaDisarm -> Disarmed
      [] OTHER -> Undefined

\* convertFromOlarmAreaStateToTargetState (lines 161-181)
convertFromOlarmAreaStateToTargetState(s) ==
    CASE s = Armed -> AWAY_ARM
      [] s = ArmedStay -> STAY_ARM
      [] s = ArmedSleep -> NIGHT_ARM
      [] s \in {Disarmed, NotReady, Triggered} -> DISARM
      [] OTHER -> DISARM

\* convertFromOlarmAreaStateToCurrentState (lines 131-158)
convertFromOlarmAreaStateToCurrentState(s) ==
    CASE s = Armed -> AWAY_ARM
      [] s = ArmedStay -> STAY_ARM
      [] s = ArmedSleep -> NIGHT_ARM
      [] s \in {Disarmed, NotReady} -> DISARM
      [] s = Triggered -> ALARM_TRIGGERED
      [] OTHER -> DISARM

\* The states an accessory can hold: the members of the enum, what an
\* undeclared member reads as, and a string that is no member.
HeldStates == OlarmAreaState \cup {Undefined, "sleep"}

\* mapping: the HomeKit value set (value), the action it converts to, the
\* target state of that action and the HomeKit value of that state, each
\* evaluated in its turn (stage); and a state with its current-state value.
NoMapping ==
    [value |-> NoValue, stage |-> 0, action |-> Pending, newTargetState |-> Pending,
     target |-> NoValue, state |-> Pending, current |-> NoValue]

\* handleSecuritySystemTargetStateSet, line 227.
MappingToAction ==
    /\ mapping.stage = 0
    /\ mapping.value # NoValue
    /\ mapping' = [mapping EXCEPT !.stage = 1,
                                  !.action = convertToOlarmAreaAction(mapping.value)]
    /\ UNCHANGED <<storeVars, convVars, poolVars, authVars, readerVars, lifeVars,
                   accessoryVars, handlerVars>>

\* Lines 229-244: a null action returns, any other goes through the switch.
MappingToState ==
    /\ mapping.stage = 1
    /\ mapping.action # Null
    /\ mapping' = [mapping EXCEPT !.stage = 2,
                                  !.newTargetState = TargetStateOfAction(mapping.action)]
    /\ UNCHANGED <<storeVars, convVars, poolVars, authVars, readerVars, lifeVars,
                   accessoryVars, handlerVars>>

\* handleSecuritySystemTargetStateGet of the new target state (line 217).
MappingToTarget ==
    /\ mapping.stage = 2
    /\ mapping' = [mapping EXCEPT
                     !.stage = 3,
                     !.target = convertFromOlarmAreaStateToTargetState(
                                    mapping.newTargetState)]
    /\ UNCHANGED <<storeVars, convVars, poolVars, authVars, readerVars, lifeVars,
                   accessoryVars, handlerVars>>

\* handleSecuritySystemCurrentStateGet (line 207).
MappingToCurrent ==
    /\ mapping.state # Pending
    /\ mapping.current = NoValue
    /\ mapping' = [mapping EXCEPT
                     !.current = convertFromOlarmAreaStateToCurrentState(mapping.state)]
    /\ UNCHANGED <<storeVars, convVars, poolVars, authVars, readerVars, lifeVars,
                   accessoryVars, handlerVars>>

MappingNext == MappingToAction \/ MappingToState \/ MappingToTarget \/ MappingToCurrent

(***************************************************************************)
(* OlarmAreaPlatformAccessory: the set request of the target state         *)
(*                                                                         *)
(* handler is the handler of the accessory of one area: currentState and   *)
(* targetState; update, the argument of the last updateStateFromExternal   *)
(* call (seq alternates with every call); request, the last call of        *)
(* handleSecuritySystemTargetStateSet: its value, its state ("none",       *)
(* "awaiting" setArea, "ended"), its outcome ("ignored": invalid value,    *)
(* "unchanged": no action needed, "ok", "failure": it threw                *)
(* SERVICE_COMMUNICATION_FAILURE), the setArea calls it made, the states   *)
(* when it was called, and whether updateStateFromExternal was called      *)
(* since.                                                                  *)
(***************************************************************************)
\* accessory.context.area of the handler.
HandlerArea == OlarmArea("Zone 1", "D1", 1, Disarmed)

NoRequest ==
    [state |-> "none", value |-> NoValue, outcome |-> "none", calls |-> 0,
     before |-> [currentState |-> Disarmed, targetState |-> Disarmed],
     updated |-> FALSE]
NoUpdate == [newState |-> Disarmed, seq |-> 0]
NoHandler == NewHandler(HandlerArea) @@ [request |-> NoRequest, update |-> NoUpdate]

\* The states updateStateFromExternal is called with: area.areaState of a
\* stored area.
ExternalStates == OlarmAreaState \cup {Undefined}

\* The platform calls updateStateFromExternal of the handler.
ExternalUpdate(newState) ==
    /\ handler' = [updateStateFromExternal(handler, newState) EXCEPT
                      !.update = [newState |-> newState, seq |-> 1 - handler.update.seq],
                      !.request.updated = @ \/ handler.request.state = "awaiting"]
    /\ UNCHANGED <<storeVars, convVars, poolVars, authVars, readerVars, lifeVars,
                   accessoryVars, mappingVars>>

\* A mutation: a command is sent whatever the states are.
NoActionNeededNever(h, newTargetState) == FALSE

\* newTargetState === this.targetState && newTargetState === this.currentState
\* (line 247)
NoActionNeeded(h, newTargetState) ==
    newTargetState = h.targetState /\ newTargetState = h.currentState

\* A mutation: the target state is not put back.
NotReverted(h) == h

\* this.targetState = this.currentState (lines 279 and 291)
Reverted(h) == [h EXCEPT !.targetState = h.currentState]

\* handleSecuritySystemTargetStateSet up to its return or to the await of
\* setArea (lines 225-273).
handleSecuritySystemTargetStateSet(value) ==
    /\ handler.request.state # "awaiting"
    /\ LET requestedAction == convertToOlarmAreaAction(value)
           newTargetState == TargetStateOfAction(requestedAction)
           request == [NoRequest EXCEPT
                         !.state = "ended", !.value = value,
                         !.before = [currentState |-> handler.currentState,
                                     targetState |-> handler.targetState]]
       IN  IF requestedAction = Null
           THEN /\ handler' = [handler EXCEPT !.request = [request EXCEPT !.outcome = "ignored"]]
                /\ UNCHANGED dispatch
           ELSE IF NoActionNeeded(handler, newTargetState)
           THEN /\ handler' = [handler EXCEPT
                                 !.request = [request EXCEPT !.outcome = "unchanged"]]
                /\ UNCHANGED dispatch
           ELSE /\ handler' = [handler EXCEPT
                                 !.targetState = newTargetState,
                                 !.request = [request EXCEPT !.state = "awaiting",
                                                             !.calls = 1]]
                /\ setAreaCall(HandlerArea.deviceId, HandlerArea.areaNumber,
                               requestedAction)
    /\ UNCHANGED <<devicesMap, clients, mqttClients, storeVars, convVars, authVars,
                   readerVars, lifeVars, accessoryVars, mappingVars>>

\* The await of setArea completes with the value it resolved to (lines
\* 273-285): on false the target state is put back and the request throws.
SetAreaReturned ==
    /\ handler.request.state = "awaiting"
    /\ dispatch.state = "returned"
    /\ handler' = IF dispatch.result
                  THEN [handler EXCEPT !.request.state = "ended",
                                       !.request.outcome = "ok"]
                  ELSE [Reverted(handler) EXCEPT !.request.state = "ended",
                                                 !.request.outcome = "failure"]
    /\ UNCHANGED <<storeVars, convVars, poolVars, authVars, readerVars, lifeVars,
                   accessoryVars, mappingVars>>

\* The promise of setArea is rejected (publish threw): the catch block (lines
\* 287-297) puts the target state back and the request throws.
SetAreaRejected ==
    /\ handler.request.state = "awaiting"
    /\ dispatch.state = "pending"
    /\ dispatch' = [dispatch EXCEPT !.state = "rejected"]
    /\ handler' = [Reverted(handler) EXCEPT !.request.state = "ended",
                                            !.request.outcome = "failure"]
    /\ UNCHANGED <<devicesMap, clients, mqttClients, storeVars, convVars, authVars,
                   readerVars, lifeVars, accessoryVars, mappingVars>>

HandlerNext ==
    \/ \E value \in TargetValues : handleSecuritySystemTargetStateSet(value)
    \/ \E error \in BOOLEAN : PublishCallback(error)
    \/ SetAreaReturned
    \/ SetAreaRejected
    \/ \E newState \in ExternalStates : ExternalUpdate(newState)
    \/ \E c \in DOMAIN clients : ConnectionLost(c)
    \/ \E c \in DOMAIN clients : Connack(c)

(***************************************************************************)
(* Evaluations of convertAreaState                                         *)
(***************************************************************************)
RECURSIVE CaseVariants(_)
CaseVariants(w) ==
    IF w = <<>> THEN {<<>>}
    ELSE {<<c>> \o rest : c \in {w[1], UpperChar(w[1])}, rest \in CaseVariants(Tail(w))}

\* The table's words and some others, in every mix of letter cases.
ConvertWords ==
    {W_arm, W_disarm, W_stay, W_sleep, W_notready, W_not_ready, W_activated,
     W_alarm, <<>>, <<"a", "r", "m", "e", "d">>, <<"a", "w", "a", "y">>,
     <<"n", "o", "t", "_", "r", "e", "a", "d", "y">>, <<"1">>}
ConvertInputs == UNION {CaseVariants(w) : w \in ConvertWords}

ConvertCall ==
    /\ convResult = Pending
    /\ convResult' = convertAreaState(convArg)
    /\ UNCHANGED <<convArg, areas, last, poolVars, authVars, restVars>>

ConvertNext ==
    /\ convResult # Pending
    /\ convArg' \in ConvertInputs
    /\ convResult' = Pending
    /\ UNCHANGED <<areas, last, poolVars, authVars, restVars>>

(***************************************************************************)
(* Properties of the area store                                            *)
(***************************************************************************)
IsCall == last.op = "processMqttMessage"
IsFrameCall == IsCall /\ last.message \in ValidFrames
FrameStates(message) == message.payload.data.areas.items

\* C1 (as amended): for a device with no areas stored and a valid frame with
\* at least one area state, the first application signals a change (the
\* callback runs once), and applying the same frame to the same device again
\* signals none.
C1_ChangeThenNoChange ==
    IsFrameCall =>
        /\ (last.priorCount = 0 /\ Len(FrameStates(last.message)) >= 1
                => last.stateChanged /\ last.callbacks = 1)
        /\ (last.repeated => ~last.stateChanged /\ last.callbacks = 0)

\* The second of two applications of a frame with areas to a device that had
\* none has been made.
C1_Witness ==
    /\ IsFrameCall
    /\ last.repeatedOnEmpty
    /\ Len(FrameStates(last.message)) >= 1
    /\ ~last.stateChanged

\* C1 as stated: every valid frame, the frame with an empty area list too,
\* signals a change when first applied to a device with no areas stored.
C1_AnyFrameChangeThenNoChange ==
    IsFrameCall =>
        /\ (last.priorCount = 0 => last.stateChanged)
        /\ (last.repeatedOnEmpty => ~last.stateChanged)

ListsDiffer(before, after) ==
    \/ Len(before) # Len(after)
    \/ \E i \in DOMAIN before : \E j \in DOMAIN after :
          /\ before[i].areaNumber = after[j].areaNumber
          /\ \/ before[i].areaName # after[j].areaName
             \/ before[i].areaState # after[j].areaState

\* C2: a call that parses a frame signals a change if and only if the list
\* it stores for the device differs from the list stored for that device
\* before the call (in length, or in the name or state of some area number),
\* whatever is stored for the other devices.
C2_ChangeIffListDiffers ==
    [][(last'.op = "processMqttMessage" /\ last'.outcome = "parsed") =>
          (last'.stateChanged <=>
              ListsDiffer(AreasOfDevice(areas, last'.deviceId),
                          AreasOfDevice(areas', last'.deviceId)))]_storeVars

\* A frame was applied that left the device's list as it was, signalling
\* nothing, while another device holds an area of the same number in
\* another state.
C2_Witness ==
    /\ IsCall /\ last.outcome = "parsed"
    /\ ~last.stateChanged
    /\ last.priorCount >= 1
    /\ \E i \in DOMAIN areas : \E j \in DOMAIN areas :
          /\ areas[i].deviceId = last.deviceId
          /\ areas[j].deviceId # last.deviceId
          /\ areas[i].areaNumber = areas[j].areaNumber
          /\ areas[i].areaState # areas[j].areaState

ExpectedName(message, i) ==
    LET areasDetail == message.payload.data.areasDetail
    IN  IF areasDetail.t = "array"
           /\ Len(areasDetail.items) = Len(FrameStates(message))
        THEN areasDetail.items[i]
        ELSE "Area " \o ToString(i)

\* C3: after a valid frame with k area states is applied to a device, the
\* snapshot (getAreas) holds for that device exactly k areas, numbered 1..k in
\* frame order, each with the device's id, a state of the enumeration that is
\* the normalization of its entry, and the name areasDetail gives it or
\* "Area i".
C3_SnapshotIsTheFrame ==
    IsFrameCall =>
        LET snap == AreasOfDevice(getAreas(areas), last.deviceId)
            states == FrameStates(last.message)
        IN  /\ Len(snap) = Len(states)
            /\ \A i \in 1..Len(states) :
                  /\ convertAreaState(states[i].chars) \in OlarmAreaState
                  /\ snap[i] = OlarmArea(ExpectedName(last.message, i), last.deviceId,
                                         i, convertAreaState(states[i].chars))

Identities(as) == [i \in 1..Len(as) |-> <<as[i].deviceId, as[i].areaNumber>>]

\* C4: a frame that keeps the state of every area of the device and changes
\* the name of at least one signals a change, and the areas keep their
\* identities (deviceId, areaNumber).
C4_RenameSignalsChange ==
    [][LET before == AreasOfDevice(areas, last'.deviceId)
           after == AreasOfDevice(areas', last'.deviceId)
       IN  (/\ last'.op = "processMqttMessage" /\ last'.outcome = "parsed"
            /\ Len(before) >= 1
            /\ [i \in 1..Len(before) |-> before[i].areaState]
                 = [i \in 1..Len(after) |-> after[i].areaState]
            /\ [i \in 1..Len(before) |-> before[i].areaName]
                 # [i \in 1..Len(after) |-> after[i].areaName])
           => /\ last'.stateChanged
              /\ Identities(before) = Identities(after)]_storeVars

\* A frame that only renamed areas has been applied.
C4_Witness ==
    /\ IsCall /\ last.outcome = "parsed"
    /\ last.priorCount >= 1
    /\ last.statesKept /\ ~last.namesKept
    /\ last.stateChanged

\* C10: one call runs the state-update callback at most once, and runs it
\* exactly when the frame was parsed and the diff reported a change.
C10_OneCallbackPerCall ==
    IsCall =>
        /\ last.callbacks \in {0, 1}
        /\ last.callbacks = 1 <=> (last.outcome = "parsed" /\ last.stateChanged)

\* A frame that changed two areas at once ran the callback once.
C10_Witness ==
    /\ IsFrameCall
    /\ Len(FrameStates(last.message)) = 2
    /\ last.priorCount = 0
    /\ last.stateChanged
    /\ last.callbacks = 1

\* C11: a processMqttMessage call with a message that is not an alarm-state
\* frame (not JSON, not an object, another type, no data, no areas, areas
\* that is not a list of strings) has left this.areas as it was, has not
\* parsed the message and has not run the callback.
C11_OtherMessagesDropped ==
    (IsCall /\ last.message \in OtherMessages) =>
        /\ last.kept
        /\ last.outcome \in {"nonjson", "ignored", "threw"}
        /\ ~last.stateChanged
        /\ last.callbacks = 0

\* C29: a processMqttMessage call for a device, whatever the message, leaves
\* the areas stored for the other devices as they were: the same records
\* (name, device, number, state) in the same order.
C29_OtherDevicesUntouched ==
    [][\A d \in DeviceIds :
          (last'.op = "processMqttMessage" /\ last'.deviceId = d) =>
              SelectSeq(areas', LAMBDA a : a.deviceId # d)
                  = SelectSeq(areas, LAMBDA a : a.deviceId # d)]_vars

\* A frame of the first device changed its areas while the store held areas
\* of the second device.
C29_Witness ==
    /\ IsFrameCall
    /\ last.deviceId = "D1"
    /\ last.stateChanged
    /\ Len(areas) >= 3
    /\ areas[1].deviceId = "D2" /\ areas[2].deviceId = "D2"

\* A valid frame: JSON of type "alarmPayload" whose data.areas is a list of
\* strings.
IsValidFrame(message) ==
    /\ message.kind = "json"
    /\ IsAlarmPayload(message.payload)
    /\ message.payload.data.areas.t = "array"
    /\ \A i \in DOMAIN message.payload.data.areas.items :
          message.payload.data.areas.items[i].t = "string"

\* The areas a valid frame describes for a device: its parse, which does not
\* depend on what is stored.
ParseOf(deviceId, message) == parseAreasFromPayload(<<>>, deviceId, message.payload).areas

\* C31: every call is applied whole and in arrival order.  A call with a
\* valid frame for device d leaves as the areas of d the parse of that frame,
\* and signals a change exactly when they differ from the areas of d stored
\* before; a call with any other message leaves the areas of d as they were
\* and signals nothing.  Hence after any interleaving the areas of d are the
\* parse of the last valid frame received for d.
C31_LastValidFrameWins ==
    [][\A d \in DeviceIds :
          (last'.op = "processMqttMessage" /\ last'.deviceId = d) =>
              IF IsValidFrame(last'.message)
              THEN /\ SelectSeq(areas', LAMBDA a : a.deviceId = d) = ParseOf(d, last'.message)
                   /\ last'.stateChanged
                        <=> SelectSeq(areas', LAMBDA a : a.deviceId = d)
                               # SelectSeq(areas, LAMBDA a : a.deviceId = d)
              ELSE /\ SelectSeq(areas', LAMBDA a : a.deviceId = d)
                        = SelectSeq(areas, LAMBDA a : a.deviceId = d)
                   /\ ~last'.stateChanged]_vars

\* The area (deviceId, areaNumber) is in the store.
Stored(as, deviceId, areaNumber) ==
    \E i \in DOMAIN as : as[i].deviceId = deviceId /\ as[i].areaNumber = areaNumber

\* C32: no processMqttMessage call removes an area from the store: an area
\* (deviceId, areaNumber) that is stored before the call is stored after it.
C32_AreasNeverDeleted ==
    [][\A d \in DeviceIds : \A n \in 1..MaxAreas :
          Stored(areas, d, n) => Stored(areas', d, n)]_vars

\* C12: the list getAreas hands out is the reader's own.  A write of the
\* reader to the list or to an area in it leaves this.areas, and so the
\* result of every later getAreas call, as it was; and a processMqttMessage
\* call leaves the list a reader holds as it was.
C12_SnapshotIsACopy ==
    [][/\ (snapshot.taken /\ snapshot'.writes = snapshot.writes + 1) =>
              /\ areas' = areas
              /\ getAreas(areas') = getAreas(areas)
       /\ (snapshot.taken /\ last' # last) => snapshot' = snapshot]_vars

\* A reader has written to a list it holds and the store has changed since
\* the list was handed out.
C12_Witness ==
    /\ snapshot.taken
    /\ snapshot.writes > 0
    /\ snapshot.at # <<>>
    /\ areas # snapshot.at
    /\ snapshot.list # getAreas(snapshot.at)

(***************************************************************************)
(* Properties of the accessories                                           *)
(***************************************************************************)
AccessoriesOf(uuid) == {k \in DOMAIN platform.accessories : platform.accessories[k].UUID = uuid}
AreasOf(uuid) == {i \in DOMAIN areas : UUIDOf(areas[i]) = uuid}
Registrations(uuid) == {k \in DOMAIN platform.registered : platform.registered[k] = uuid}

\* C19: when the last handler call ran discoverDevices, every area of the
\* store has exactly one accessory, every accessory has exactly one area of
\* the store, and the accessories registered with Homebridge are those
\* accessories; and at no time is a UUID registered twice.
C19_AccessoriesMatchAreas ==
    /\ \A k \in DOMAIN platform.registered :
          Cardinality(Registrations(platform.registered[k])) = 1
    /\ platform.discovered =>
          /\ \A i \in DOMAIN areas :
                Cardinality(AccessoriesOf(UUIDOf(areas[i]))) = 1
          /\ \A k \in DOMAIN platform.accessories :
                Cardinality(AreasOf(platform.accessories[k].UUID)) = 1
          /\ {platform.registered[k] : k \in DOMAIN platform.registered}
                = {platform.accessories[k].UUID : k \in DOMAIN platform.accessories}

\* A discovery has unregistered an accessory and left the accessories of the
\* areas of two devices.
C19_Witness ==
    /\ platform.discovered
    /\ platform.unregistered # {}
    /\ Len(platform.accessories) >= 2
    /\ \E i, j \in DOMAIN areas : areas[i].deviceId # areas[j].deviceId

\* The panel reports the area of an accessory as far as the plugin can
\* know: the area is in the store, or no message has been processed yet.
StillReported(as, call, area) ==
    \/ Stored(as, area.deviceId, area.areaNumber)
    \/ call = NoCall

\* C37: an accessory of a device of the account whose area the panel still
\* reports stays in this.accessories and registered with Homebridge in every
\* step; in particular in the discovery that initializePlugin runs after the
\* connections are set up, before any frame has arrived.
C37_ReportedAccessoryKept ==
    [][\A k \in DOMAIN platform.accessories :
          LET accessory == platform.accessories[k]
          IN  (/\ accessory.area.deviceId \in DeviceIds
               /\ StillReported(areas', last', accessory.area)) =>
                 /\ FindAccessory(platform'.accessories, accessory.UUID) # 0
                 /\ Registrations(accessory.UUID) # {} =>
                       \E j \in DOMAIN platform'.registered :
                           platform'.registered[j] = accessory.UUID]_vars

\* The step is a message whose processing ran updateAccessoryStates.
AccessoriesUpdated ==
    /\ last'.callbacks > 0
    /\ stopped' = stopped
    /\ platform'.initialized = platform.initialized

\* C39: when updateAccessoryStates has run, every area of the store has an
\* accessory in this.accessories that is registered with Homebridge and has a
\* handler, and the currentState of that handler is the areaState stored for
\* the area.
C39_HandlersFollowStore ==
    [][AccessoriesUpdated =>
          \A i \in DOMAIN areas' :
              LET uuid == UUIDOf(areas'[i])
              IN  /\ FindAccessory(platform'.accessories, uuid) # 0
                  /\ \E j \in DOMAIN platform'.registered : platform'.registered[j] = uuid
                  /\ uuid \in platform'.accessoryHandlers
                  /\ uuid \in DOMAIN platform'.handlerOf
                  /\ platform'.handlerOf[uuid].currentState = AreaStateOf(areas'[i])]_vars

(***************************************************************************)
(* Properties of the HomeKit conversions                                   *)
(***************************************************************************)
\* C20: for a settable HomeKit value that has been converted to an action,
\* to the target state of that action and back, the action is a member of
\* OlarmAreaAction, the state a member of OlarmAreaState, and the value that
\* comes back is the value set; and two settable values never have the same
\* action or the same target state.
C20_MappingRoundTrips ==
    /\ (mapping.stage = 3 /\ mapping.value \in SettableValues) =>
          /\ mapping.action \in OlarmAreaAction
          /\ mapping.newTargetState \in OlarmAreaState
          /\ mapping.target = mapping.value
    /\ \A v, w \in SettableValues :
          v # w =>
             /\ convertToOlarmAreaAction(v) # convertToOlarmAreaAction(w)
             /\ TargetStateOfAction(convertToOlarmAreaAction(v))
                    # TargetStateOfAction(convertToOlarmAreaAction(w))

(***************************************************************************)
(* Properties of the client pool                                           *)
(***************************************************************************)
\* The clients of a device that have not been ended.
LiveClients(d) == {c \in DOMAIN clients : clients[c].deviceId = d /\ Live(c)}

\* A step that creates a client for device d.
Created(d) ==
    /\ Len(clients') = Len(clients) + 1
    /\ clients'[Len(clients')].deviceId = d

\* C17: no device has two clients that are not ended, and no client is
\* created for a device whose client in the map is connected or connecting:
\* that client is kept.
C17_OneLiveClientReused ==
    [][\A d \in DeviceIds :
          /\ Cardinality(LiveClients(d)) <= 1
          /\ (/\ mqttClients[d] # NoClient
              /\ clients[mqttClients[d]].phase \in {"connected", "connecting"}) =>
                 ~Created(d)]_vars

\* C18: once the 'shutdown' event has been emitted every client is ended:
\* the clients of that moment have been ended and stay so, and no client has
\* been created since.
C18_AllClosedAfterShutdown ==
    stopped => \A c \in DOMAIN clients : ~Live(c)

\* Device d has a client whose subscription failed; device d has a client
\* that is connected and subscribed.
SubscriptionFailed(d) ==
    \E c \in DOMAIN clients : clients[c].deviceId = d /\ clients[c].subscription = "failed"
Subscribed(d) ==
    \E c \in DOMAIN clients :
        /\ clients[c].deviceId = d
        /\ Connected(c)
        /\ clients[c].subscription = "done"

\* C25: a client whose subscription failed is ended and is not in the map,
\* and unless the plugin is shut down its device gets a connected and
\* subscribed client again.
C25_ResubscribedAfterFailure ==
    \A d \in DeviceIds :
        [](SubscriptionFailed(d) =>
             /\ \A c \in DOMAIN clients :
                   clients[c].subscription = "failed" =>
                       ~Live(c) /\ \A e \in DeviceIds : mqttClients[e] # c
             /\ <>(Subscribed(d) \/ stopped))

\* C26: every time a client becomes connected its subscription to the status
\* topic is requested, and a GET request is published only, and once, when a
\* requested subscription is granted.
C26_SubscribeAndGetOnEveryConnect ==
    [][\A c \in DOMAIN clients :
          /\ (~Connected(c) /\ clients'[c].phase = "connected") =>
                 clients'[c].subscription = "pending"
          /\ clients'[c].gets # clients[c].gets =>
                 /\ clients'[c].gets = clients[c].gets + 1
                 /\ clients[c].subscription = "pending"
                 /\ clients'[c].subscription = "done"]_vars

\* C27: a client is ended only by the step of shutdown, and a client that
\* was ended never connects again.
C27_ClosedOnlyByShutdown ==
    [][\A c \in DOMAIN clients :
          /\ (Live(c) /\ clients'[c].phase = "ended") => (~stopped /\ stopped')
          /\ ~Live(c) => clients'[c].phase = "ended"]_vars

\* C28: a client that is going to connect again after the broker refused
\* its connect attempt does so with a password other than the refused one.
C28_RefusedTokenNotRetried ==
    \A c \in DOMAIN clients :
        (/\ clients[c].phase \in {"connecting", "offline"}
         /\ clients[c].refusedWith # JNull) =>
            clients[c].password # clients[c].refusedWith

\* A step in which setArea is called.
SetAreaCalled == dispatch.state # "pending" /\ dispatch' # dispatch

\* C24: a setArea call made while the client of the device is connected but
\* its subscription to the status topic has not been granted returns false
\* and hands no message to publish.
C24_NoDispatchBeforeSubscribed ==
    [][\A d \in DeviceIds :
          (/\ SetAreaCalled
           /\ dispatch'.deviceId = d
           /\ mqttClients[d] # NoClient
           /\ Connected(mqttClients[d])
           /\ clients[mqttClients[d]].subscription # "done") =>
              /\ dispatch'.state = "returned"
              /\ dispatch'.result = FALSE
              /\ dispatch'.sent = <<>>]_vars

(***************************************************************************)
(* Properties of the session                                               *)
(***************************************************************************)
Session(a) == [tokens |-> getTokens(a), file |-> a.file]

\* C13: a call of refreshAccessToken whose request was answered by a server
\* error (a status that is not an authentication error) or by no answer at
\* all has left the session, in memory and in the tokens file, as it was
\* when the call was made.
C13_ClearedOnlyWhenRejected ==
    (auth.attempt.op = "refresh" /\ auth.attempt.answer \in {"network", "serverError"}) =>
        Session(auth) = auth.attempt.before

\* C14: a call of login or refreshAccessToken that has thrown because one of
\* its requests got no answer (a network failure) has left the session, in
\* memory and in the tokens file, as it was when the call was made.
C14_NetworkFailureKeepsSession ==
    (auth.attempt.ended /\ auth.attempt.answer = "network") =>
        Session(auth) = auth.attempt.before

\* C15: when a call of login or refreshAccessToken returns, and when
\* refreshAccessToken throws after it has cleared the session, the tokens
\* file holds the record of the five session fields in memory.
C15_PersistedWhenReturned ==
    [][(/\ ~auth.attempt.ended
        /\ auth'.attempt.ended
        /\ \/ auth'.attempt.answer = "ok"
           \/ /\ auth'.attempt.op = "refresh"
              /\ auth'.attempt.answer \in {"unauthorized", "serverError"}) =>
            auth'.file = JsonFile(getTokens(auth'))]_vars

\* A step of caller c in which initialize calls ensureAccessToken (line 64).
EnsureCalled(c) ==
    /\ At(c, "initialize:loadTokensFromStorage")
    /\ auth'.stack[c] # <<>>
    /\ auth'.stack[c][Len(auth'.stack[c])].at = "initialize:ensureAccessToken"

\* The access token is set and expires more than five minutes from now.
Fresh(a) ==
    /\ a.accessToken.t = "string"
    /\ a.tokenExpiration.t = "number"
    /\ a.tokenExpiration.n - a.now > 5 * 60 * 1000

\* C16: a call of ensureAccessToken with a session whose access token is set
\* and expires more than five minutes from now returns at once, with no
\* request made and the session and the tokens file as they were; with any
\* other session it makes a refresh request or a login request.
C16_EnsureOnlyWhenStale ==
    [][\A c \in Callers : EnsureCalled(c) =>
          IF Fresh(auth)
          THEN /\ auth'.fetches = auth.fetches
               /\ Session(auth') = Session(auth)
               /\ auth'.stack[c] = <<Suspended("initialize:ensureAccessToken")>>
          ELSE \/ auth'.fetches["refresh"] = auth.fetches["refresh"] + 1
               \/ auth'.fetches["login"] = auth.fetches["login"] + 1]_vars

\* initialize has called ensureAccessToken with a session that is not about
\* to expire, and ensureAccessToken has returned without any request.
C16_Witness ==
    /\ At(1, "initialize:ensureAccessToken")
    /\ Fetches(auth) = 0
    /\ Fresh(auth)

\* The five session fields are all empty, or all set.
AllEmpty(a) == getTokens(a) = NoTokens
AllSet(a) ==
    /\ a.accessToken.t = "string"
    /\ a.refreshToken.t = "string"
    /\ a.tokenExpiration.t = "number"
    /\ a.userIndex.t = "number"
    /\ a.userId.t = "string"

\* C22: whenever no call of initialize is running, the session is either
\* empty in all of its five fields or set in all of them; in particular an
\* access token never comes without an expiry instant.
C22_SessionAllOrNothing ==
    (\A c \in Callers : auth.stack[c] = <<>>) => (AllEmpty(auth) \/ AllSet(auth))

\* Caller c is inside the refreshAccessToken that ensureAccessToken awaits
\* (line 339), or inside the login of its catch block (line 343).
InEnsureRefresh(a, c) ==
    \E i \in DOMAIN a.stack[c] : a.stack[c][i].at = "ensureAccessToken:refresh"
InRelogin(a, c) ==
    \E i \in DOMAIN a.stack[c] : a.stack[c][i].at = "ensureAccessToken:login"

\* C23: when the refreshAccessToken called by ensureAccessToken throws, one
\* login request is made; no other login or refresh request is made while
\* that login runs; and when that login throws too, initialize is rejected at
\* once, with no request made in that step or afterwards.
C23_OneReloginThenSurfaced ==
    [][\A c \in Callers :
          /\ (InEnsureRefresh(auth, c) /\ ~InEnsureRefresh(auth', c)
                 /\ ~At(c, "ensureAccessToken:refresh")) =>
                /\ InRelogin(auth', c)
                /\ auth'.fetches["login"] = auth.fetches["login"] + 1
                /\ auth'.fetches["refresh"] = auth.fetches["refresh"]
          /\ InRelogin(auth, c) =>
                /\ auth'.fetches["login"] = auth.fetches["login"]
                /\ auth'.fetches["refresh"] = auth.fetches["refresh"]
          /\ (InRelogin(auth, c) /\ ~InRelogin(auth', c)
                 /\ ~At(c, "ensureAccessToken:login")) =>
                /\ auth'.outcome[c] = "rejected"
                /\ auth'.stack[c] = <<>>
                /\ auth'.fetches = auth.fetches
          /\ auth.outcome[c] = "rejected" =>
                /\ auth'.outcome[c] = "rejected"
                /\ auth'.fetches = auth.fetches]_vars

\* The refresh of ensureAccessToken failed, the login that followed failed
\* too, and initialize has been rejected after one request of each kind.
C23_Witness ==
    /\ auth.outcome[1] = "rejected"
    /\ auth.attempt.op = "login"
    /\ auth.attempt.answer \in {"network", "unauthorized", "serverError"}
    /\ auth.fetches["refresh"] = 1
    /\ auth.fetches["login"] = 1

\* The fetchDevices calls of caller c that are suspended in their 401 branch:
\* awaiting the refresh or awaiting the fetchDevices call they made after it.
RetryDepth(a, c) ==
    Cardinality({i \in DOMAIN a.stack[c] :
                    a.stack[c][i].at \in {"fetchDevices:refreshAccessToken",
                                          "fetchDevices:fetchDevices"}})

\* C36: the enumeration of devices ends after a bounded number of refreshes
\* and device requests: the fetchDevices call made after a 401 and a
\* successful refresh does not itself refresh and call fetchDevices again,
\* so at most one fetchDevices call is suspended in its 401 branch.
C36_EnumerationRetriesBounded ==
    \A c \in Callers : RetryDepth(auth, c) <= 1

\* The session the tokens file holds: what loadTokensFromStorage reads from
\* it (lines 351-368), which is the empty session when there is no readable
\* file.
StoredSession(file) ==
    IF file.kind = "json"
    THEN [userIndex |-> OfType(file.tokens.userIndex, "number"),
          userId |-> OfType(file.tokens.userId, "string"),
          accessToken |-> OfType(file.tokens.accessToken, "string"),
          refreshToken |-> OfType(file.tokens.refreshToken, "string"),
          tokenExpiration |-> OfType(file.tokens.tokenExpiration, "number")]
    ELSE NoTokens

\* C38: once initialize has resolved or been rejected, so that no login,
\* refresh or user-index lookup is in flight, the session in the tokens file
\* is the session in memory; also when a login or refresh failed part-way
\* and when a write of the file failed.
C38_PersistedEqualsMemory ==
    \A c \in Callers :
        (auth.outcome[c] \in {"resolved", "rejected"} /\ auth.stack[c] = <<>>) =>
            StoredSession(auth.file) = getTokens(auth)

(***************************************************************************)
(* Properties of the command dispatch                                      *)
(***************************************************************************)
Called == dispatch.state # "idle"
KnownDevice == dispatch.deviceId \in DOMAIN devicesMap

\* C7: a setArea call for a device that has no client in the pool, or whose
\* client is not connected, has returned false and has handed no message to
\* publish.
C7_NoReadyConnectionFails ==
    (Called /\ ~dispatch.ready) =>
        /\ dispatch.state = "returned"
        /\ dispatch.result = FALSE
        /\ dispatch.sent = <<>>

\* A call was made for a device whose client exists but is not connected.
C7_Witness ==
    /\ Called
    /\ dispatch.client # NoClient
    /\ ~dispatch.ready
    /\ dispatch.state = "returned"

\* C8: a setArea call for a known device with a connected client, area
\* number n and action a has handed exactly one message to publish: to the
\* control topic of the device, with data [a, n] and QoS 1; once the callback
\* has run the call has returned true exactly when there was no error, and no
\* second message was published.
C8_OnePublishOfActionAndArea ==
    (Called /\ dispatch.ready /\ KnownDevice) =>
        /\ Len(dispatch.sent) = 1
        /\ dispatch.sent[1].topic =
               "si/app/v2/" \o devicesMap[dispatch.deviceId].IMEI \o "/control"
        /\ dispatch.sent[1].message.data = <<dispatch.action, dispatch.areaNumber>>
        /\ dispatch.sent[1].qos = 1
        /\ dispatch.state = "returned" => dispatch.result = ~dispatch.error

C30_DispatchLeavesAreas ==
    [][/\ dispatch' # dispatch => areas' = areas
       /\ \A d \in DeviceIds :
             SelectSeq(areas', LAMBDA a : a.deviceId = d)
                 # SelectSeq(areas, LAMBDA a : a.deviceId = d) =>
                    /\ dispatch' = dispatch
                    /\ last' # last
                    /\ last'.deviceId = d
                    /\ last'.outcome = "parsed"]_vars

\* An Arm command for a stored area that is disarmed was published without
\* error and has returned true; the area is still stored as disarmed.
C30_Witness ==
    /\ dispatch.state = "returned"
    /\ dispatch.result = TRUE
    /\ dispatch.action = AreaArm
    /\ \E i \in DOMAIN areas :
          /\ areas[i].deviceId = dispatch.deviceId
          /\ areas[i].areaNumber = dispatch.areaNumber
          /\ areas[i].areaState = Disarmed

\* The step is a call of updateStateFromExternal.
ExternallyUpdated == handler'.update.seq # handler.update.seq

\* C33: a call of updateStateFromExternal sets currentState to the new state;
\* it sets targetState to the new state too unless the new state is NotReady,
\* and then it leaves targetState as it was; so after a call with a state
\* other than NotReady, targetState equals currentState.
C33_ExternalUpdateSetsStates ==
    [][ExternallyUpdated =>
          LET newState == handler'.update.newState
          IN  /\ handler'.currentState = newState
              /\ handler'.targetState =
                    IF newState = NotReady THEN handler.targetState ELSE newState
              /\ newState # NotReady => handler'.targetState = handler'.currentState]_vars

\* The handler held Armed for both states and the panel then reported
\* NotReady: the current state is NotReady and the target state still Armed.
C33_Witness ==
    /\ handler.update.newState = NotReady
    /\ handler.currentState = NotReady
    /\ handler.targetState = Armed

\* The step ends a set request that was awaiting setArea.
RequestCompleted ==
    handler.request.state = "awaiting" /\ handler'.request.state = "ended"

\* C34: a set request whose setArea call resolved to false or was rejected
\* ends by throwing the communication failure, with targetState put back to
\* currentState, whatever updateStateFromExternal did in between; a set
\* request whose setArea call resolved to true ends without an error; and no
\* step of a set request changes currentState.
C34_FailedRequestRolledBack ==
    [][/\ RequestCompleted =>
             IF dispatch'.state = "rejected" \/ ~dispatch'.result
             THEN /\ handler'.request.outcome = "failure"
                  /\ handler'.targetState = handler'.currentState
             ELSE /\ handler'.request.outcome = "ok"
                  /\ handler'.targetState = handler.targetState
       /\ ~ExternallyUpdated => handler'.currentState = handler.currentState]_vars

\* A set request failed after updateStateFromExternal had changed the current
\* state while setArea was awaited: both states are the updated one.
C34_Witness ==
    /\ handler.request.state = "ended"
    /\ handler.request.outcome = "failure"
    /\ handler.request.updated
    /\ handler.currentState # handler.request.before.currentState
    /\ handler.targetState = handler.currentState

\* The step is a call of handleSecuritySystemTargetStateSet.
SetRequested ==
    /\ ~ExternallyUpdated
    /\ handler.request.state # "awaiting"
    /\ handler'.request # handler.request

\* The state a HomeKit target value asks for.
RequestedState(value) ==
    CASE value = AWAY_ARM -> Armed
      [] value = STAY_ARM -> ArmedStay
      [] value = NIGHT_ARM -> ArmedSleep
      [] value = DISARM -> Disarmed

\* C35: a set request for the state that both targetState and currentState
\* already hold, and a set request with a value that is none of the four
\* target values, call setArea not at all and change neither state.
C35_NoCommandWhenNothingToDo ==
    [][SetRequested =>
          LET value == handler'.request.value
          IN  (\/ value \notin SettableValues
               \/ /\ RequestedState(value) = handler.targetState
                  /\ RequestedState(value) = handler.currentState) =>
                 /\ handler'.request.calls = 0
                 /\ handler'.request.state = "ended"
                 /\ dispatch' = dispatch
                 /\ handler'.currentState = handler.currentState
                 /\ handler'.targetState = handler.targetState]_vars

\* An away-arm request was made while both states were Armed already, and it
\* ended without a setArea call.
C35_Witness ==
    /\ handler.request.value = AWAY_ARM
    /\ handler.request.outcome = "unchanged"
    /\ handler.request.before = [currentState |-> Armed, targetState |-> Armed]
    /\ handler.request.calls = 0

\* A request with a value outside the four target values was ignored.
C35_WitnessInvalid ==
    /\ handler.request.value = ALARM_TRIGGERED
    /\ handler.request.outcome = "ignored"

(***************************************************************************)
(* Properties of Auth                                                      *)
(***************************************************************************)
\* C6: when every caller called initialize while no session existed in
\* memory or in the tokens file, and every call has completed without any
\* refresh request having been made, exactly one login request was made and
\* the session is the token pair of that login.
C6_OneLoginForAllCallers ==
    (/\ \A c \in Callers : auth.started[c] = "noSession" /\ auth.outcome[c] = "resolved"
     /\ auth.fetches["refresh"] = 0) =>
        /\ auth.fetches["login"] = 1
        /\ auth.accessToken = AccessTokenOf(1)
        /\ auth.refreshToken = RefreshTokenOf(1)

\* The frames of a refresh-or-login sequence: login and refreshAccessToken
\* suspended at one of their awaits (auth.ts, lines 122-140 and 291-319).
SequenceFrames ==
    {"login:fetch", "login:fetchUserIndex", "login:saveTokensToStorage",
     "refreshAccessToken:fetch", "refreshAccessToken:saveCleared",
     "refreshAccessToken:fetchUserIndex", "refreshAccessToken:saveTokensToStorage"}

\* Caller c has a login or a refreshAccessToken that has not completed.
InFlight(a, c) == \E i \in DOMAIN a.stack[c] : a.stack[c][i].at \in SequenceFrames

\* C21: at no time do two callers have a login or a refreshAccessToken in
\* flight: a caller that needs a session while another caller's sequence is
\* running does not start one of its own.
C21_OneSequenceInFlight ==
    Cardinality({c \in Callers : InFlight(auth, c)}) <= 1

(***************************************************************************)
(* Properties of convertAreaState                                          *)
(***************************************************************************)
\* The table of the normalization, on lower-cased words.
TableState(word) ==
    CASE word = W_arm -> Armed
      [] word = W_disarm -> Disarmed
      [] word = W_stay -> ArmedStay
      [] word = W_sleep -> ArmedSleep
      [] word \in {W_notready, W_not_ready} -> NotReady
      [] word \in {W_activated, W_alarm} -> Triggered
      [] OTHER -> NotReady

\* C5: convertAreaState agrees with the table on every input, whatever the
\* letter case, and the six states of the table are pairwise distinct members
\* of the enumeration.
C5_NormalizationTable ==
    convResult # Pending =>
        /\ convResult = TableState(toLowerCase(convArg))
        /\ convResult \in OlarmAreaState
        /\ Cardinality({Armed, Disarmed, ArmedStay, ArmedSleep, NotReady, Triggered}) = 6
        /\ {Armed, Disarmed, ArmedStay, ArmedSleep, NotReady, Triggered} \subseteq OlarmAreaState

(***************************************************************************)
(* Specifications                                                          *)
(***************************************************************************)
\* Auth after initialize has completed with the tokens of the file still
\* valid: a state of SpecAuth.
InitializedAuth ==
    [NewAuth(JsonFile(SavedTokens)) EXCEPT
        !.userIndex = SavedTokens.userIndex, !.userId = SavedTokens.userId,
        !.accessToken = SavedTokens.accessToken,
        !.refreshToken = SavedTokens.refreshToken,
        !.tokenExpiration = SavedTokens.tokenExpiration,
        !.devices = AccountDevices,
        !.fetches["devices"] = 1,
        !.outcome[1] = "resolved", !.started[1] = "session"]

\* A client that is connected and subscribed: a state of SpecDispatch.
SubscribedClient(deviceId) ==
    [NewClient(deviceId) EXCEPT !.phase = "connected", !.onConnect = FALSE,
                                !.onInitialError = FALSE,
                                !.subscription = "done", !.gets = 1]

\* The area store under the messages of the devices: an Olarm whose callback
\* is only counted (the callback is an argument of its constructor and has
\* no access to this.areas but through getAreas), with no area stored.
InitStore ==
    /\ auth = InitializedAuth
    /\ devicesMap = DevicesMapOf(auth.devices)
    /\ clients = <<SubscribedClient("D1"), SubscribedClient("D2")>>
    /\ mqttClients = [NoClients EXCEPT !["D1"] = 1, !["D2"] = 2]
    /\ dispatch = Idle
    /\ convArg = <<>>
    /\ convResult = Pending
    /\ areas = <<>>
    /\ last = NoCall
    /\ snapshot = NoSnapshot
    /\ stopped = FALSE
    /\ platform = InitializedPlatform
    /\ mapping = NoMapping
    /\ handler = NoHandler

SpecStore == InitStore /\ [][StoreNext]_vars

\* Readers of the store while frames arrive.
InitReader ==
    /\ auth = InitializedAuth
    /\ devicesMap = DevicesMapOf(auth.devices)
    /\ clients = <<SubscribedClient("D1"), SubscribedClient("D2")>>
    /\ mqttClients = [NoClients EXCEPT !["D1"] = 1, !["D2"] = 2]
    /\ dispatch = Idle
    /\ convArg = <<>>
    /\ convResult = Pending
    /\ areas = <<>>
    /\ last = NoCall
    /\ snapshot = NoSnapshot
    /\ stopped = FALSE
    /\ platform = InitializedPlatform
    /\ mapping = NoMapping
    /\ handler = NoHandler

SpecReader == InitReader /\ [][ReaderNext]_vars

\* The accessories while frames arrive: Homebridge has restored a cache,
\* the clients are connected and subscribed, and initializePlugin has yet to
\* run its discovery.
InitPlatform ==
    /\ auth = InitializedAuth
    /\ devicesMap = DevicesMapOf(auth.devices)
    /\ clients = <<SubscribedClient("D1"), SubscribedClient("D2")>>
    /\ mqttClients = [NoClients EXCEPT !["D1"] = 1, !["D2"] = 2]
    /\ dispatch = Idle
    /\ convArg = <<>>
    /\ convResult = Pending
    /\ areas = <<>>
    /\ last = NoCall
    /\ snapshot = NoSnapshot
    /\ stopped = FALSE
    /\ platform \in {Restored(cache) : cache \in CachedAreas}
    /\ mapping = NoMapping
    /\ handler = NoHandler

SpecPlatform == InitPlatform /\ [][PlatformNext]_vars

\* The client pool and the dispatch of commands: Auth is initialized, Olarm
\* is constructed, no client exists.
InitDispatch ==
    /\ auth = InitializedAuth
    /\ devicesMap = DevicesMapOf(auth.devices)
    /\ clients = <<>>
    /\ mqttClients = NoClients
    /\ dispatch = Idle
    /\ convArg = <<>>
    /\ convResult = Pending
    /\ areas = <<>>
    /\ last = NoCall
    /\ snapshot = NoSnapshot
    /\ stopped = FALSE
    /\ platform = NewPlatform
    /\ mapping = NoMapping
    /\ handler = NoHandler

SpecDispatch == InitDispatch /\ [][PoolNext]_vars

\* The store and the dispatch together: every device has a subscribed client
\* and no area is stored yet.
InitCommand ==
    /\ auth = InitializedAuth
    /\ devicesMap = DevicesMapOf(auth.devices)
    /\ clients = <<SubscribedClient("D1"), SubscribedClient("D2")>>
    /\ mqttClients = [NoClients EXCEPT !["D1"] = 1, !["D2"] = 2]
    /\ dispatch = Idle
    /\ convArg = <<>>
    /\ convResult = Pending
    /\ areas = <<>>
    /\ last = NoCall
    /\ snapshot = NoSnapshot
    /\ stopped = FALSE
    /\ platform = InitializedPlatform
    /\ mapping = NoMapping
    /\ handler = NoHandler

SpecCommand == InitCommand /\ [][CommandNext]_vars

\* The handler of the accessory of the first area of D1, created for the
\* area disarmed, with the client of D1 connected and subscribed.
InitHandler ==
    /\ auth = InitializedAuth
    /\ devicesMap = DevicesMapOf(auth.devices)
    /\ clients = <<SubscribedClient("D1")>>
    /\ mqttClients = [NoClients EXCEPT !["D1"] = 1]
    /\ dispatch = Idle
    /\ convArg = <<>>
    /\ convResult = Pending
    /\ areas = <<>>
    /\ last = NoCall
    /\ snapshot = NoSnapshot
    /\ stopped = FALSE
    /\ platform = InitializedPlatform
    /\ mapping = NoMapping
    /\ handler = NoHandler

SpecHandler == InitHandler /\ [][HandlerNext]_vars

\* The clients after initializeOlarmAndMQTT has called initializeMQTTForDevice
\* for every device of the account (line 112): one client per device, each
\* connecting.  A client that is live and not connected connects again by
\* itself every reconnectPeriod, and the callback of a subscribe is called:
\* a CONNACK that stays possible comes, and a pending subscription is
\* answered.
InitLifecycle ==
    /\ auth = InitializedAuth
    /\ devicesMap = DevicesMapOf(auth.devices)
    /\ clients = <<NewClient("D1"), NewClient("D2")>>
    /\ mqttClients = [NoClients EXCEPT !["D1"] = 1, !["D2"] = 2]
    /\ dispatch = Idle
    /\ convArg = <<>>
    /\ convResult = Pending
    /\ areas = <<>>
    /\ last = NoCall
    /\ snapshot = NoSnapshot
    /\ stopped = FALSE
    /\ platform = NewPlatform
    /\ mapping = NoMapping
    /\ handler = NoHandler

SpecLifecycle ==
    /\ InitLifecycle
    /\ [][LifecycleNext]_vars
    /\ \A c \in 1..MaxClients :
          /\ WF_vars(c \in DOMAIN clients /\ Connack(c))
          /\ WF_vars(c \in DOMAIN clients /\ (SubscribeGranted(c) \/ SubscribeFailed(c)))

\* Evaluations of convertAreaState on the inputs.
InitConvert ==
    /\ auth = InitializedAuth
    /\ devicesMap = DevicesMapOf(auth.devices)
    /\ clients = <<>>
    /\ mqttClients = NoClients
    /\ dispatch = Idle
    /\ areas = <<>>
    /\ last = NoCall
    /\ snapshot = NoSnapshot
    /\ stopped = FALSE
    /\ platform = NewPlatform
    /\ mapping = NoMapping
    /\ handler = NoHandler
    /\ convArg \in ConvertInputs
    /\ convResult = Pending

SpecConvert == InitConvert /\ [][ConvertCall \/ ConvertNext]_vars

\* Evaluations of the HomeKit conversions on every value and state.
InitMapping ==
    /\ auth = InitializedAuth
    /\ devicesMap = DevicesMapOf(auth.devices)
    /\ clients = <<>>
    /\ mqttClients = NoClients
    /\ dispatch = Idle
    /\ areas = <<>>
    /\ last = NoCall
    /\ convArg = <<>>
    /\ convResult = Pending
    /\ snapshot = NoSnapshot
    /\ stopped = FALSE
    /\ platform = NewPlatform
    /\ mapping \in {[NoMapping EXCEPT !.value = v, !.state = s] :
                       v \in TargetValues, s \in HeldStates}
    /\ handler = NoHandler

SpecMapping == InitMapping /\ [][MappingNext]_vars

\* Auth under concurrent callers of initialize, before the platform has
\* constructed Olarm and created clients; the tokens file is any of
\* InitialFiles.
InitAuth ==
    /\ auth \in {NewAuth(file) : file \in InitialFiles}
    /\ devicesMap = DevicesMapOf(auth.devices)
    /\ clients = <<>>
    /\ mqttClients = NoClients
    /\ dispatch = Idle
    /\ convArg = <<>>
    /\ convResult = Pending
    /\ areas = <<>>
    /\ last = NoCall
    /\ snapshot = NoSnapshot
    /\ stopped = FALSE
    /\ platform = NewPlatform
    /\ mapping = NoMapping
    /\ handler = NoHandler

SpecAuth == InitAuth /\ [][AuthNext]_vars

\* Auth under the one initialize call the platform makes.
InitSession ==
    /\ auth \in {NewAuth(file) : file \in InitialFiles \cup {JsonFile(UndatedTokens)}}
    /\ devicesMap = DevicesMapOf(auth.devices)
    /\ clients = <<>>
    /\ mqttClients = NoClients
    /\ dispatch = Idle
    /\ convArg = <<>>
    /\ convResult = Pending
    /\ areas = <<>>
    /\ last = NoCall
    /\ snapshot = NoSnapshot
    /\ stopped = FALSE
    /\ platform = NewPlatform
    /\ mapping = NoMapping
    /\ handler = NoHandler

SpecSession == InitSession /\ [][SessionNext]_vars
====
